---------------------------- MODULE Spec2Model ----------------------------
(***************************************************************************)
(* wilddawg: incremental construction and minimisation of a DAWG.          *)
(*                                                                         *)
(* The model holds the three components of the package:                    *)
(*   - the State objects (LazyDfaAnnotatedState), kept in a heap that is   *)
(*     indexed by object reference, so that "same object" (pointer         *)
(*     equality) and "same id" (GetId) are different things, as in Go;     *)
(*   - the EncodeHashStateFactory (IdCounter, DefaultStateType and the     *)
(*     encoder / hash function it hands to every state it makes);          *)
(*   - the CollisionSafeHashMapRegister (EquivalenceClassMap).             *)
(* The package is single threaded and synchronous: every exported method   *)
(* is one atomic action.  ret holds what the last call returned.           *)
(***************************************************************************)
EXTENDS Integers, Sequences, FiniteSets, TLC

(* ---------------------------- bounds ----------------------------------- *)
\* Largest number of State objects ever allocated in one behaviour.
MaxObjs == 3
\* Largest id value given to SetId / SetIdCounter and handed out by the factory.
MaxId == 2
\* Longest sequence of calls explored by Spec and by SpecFlags.
MaxSteps == 6
\* Longest sequence of calls explored by SpecWalk.
MaxWalkSteps == 7
\* Longest sequence of calls explored by SpecClone and by SpecStateful.
MaxCloneSteps == 5

(* ------------------------- program constants --------------------------- *)
\* const ( LAZYDFAANNOTATED StateType = iota )
LAZYDFAANNOTATED == 0

\* state.go: const ( LAZYDFASTATEFUL StateType = iota )
LAZYDFASTATEFUL == 0

\* Transition labels and annotation values the builder uses.
Labels == {"a", "b"}
Annots == {"x"}

\* Two annotation values, for the set behaviour of the annotations.
AnnotationValues == {"x", "y"}
\* StateType values a caller may pass (LAZYDFAANNOTATED and an unsupported one).
StateTypes == {LAZYDFAANNOTATED, LAZYDFAANNOTATED + 1}
\* The nil State, and the nil codec.Handle / hash.Hash32.
Nil == 0
\* The injected hash.Hash32 implementations of a session: each is a byte fold
\* reduced modulo a width; width 1 sends every input to one value (a forced
\* collision), width 3 collides often, the widest one rarely.
HashMods == {1, 3, 65521}
\* What a session may hand to NewEncodeHashStateFactory: <<encoding is
\* non-nil, hashFunc>>.
Sessions ==
  {<<TRUE, w>> : w \in HashMods} \cup {<<TRUE, Nil>>, <<FALSE, Nil>>, <<FALSE, 3>>}
\* The nil error.
NoErr == "nil"
\* The goroutines that may call IsomorphismHash at the same time, and a
\* goroutine that is not in a call.
Threads == {"A", "B"}
Idle == [pc |-> "idle", s |-> Nil, encodedBytes |-> <<>>, hash |-> 0, err |-> NoErr]

VARIABLES
  heap,                \* Seq of State objects; a State reference is an index
  IdCounter,           \* EncodeHashStateFactory.IdCounter
  DefaultStateType,    \* EncodeHashStateFactory.DefaultStateType
  Encoding,            \* EncodeHashStateFactory.Encoding is non-nil
  HashFunc,            \* EncodeHashStateFactory.HashFunc: its width, or Nil
  EquivalenceClassMap, \* CollisionSafeHashMapRegister.EquivalenceClassMap
  ret,                 \* what the last call returned
  steps,               \* number of calls made so far
  accumulator,         \* the state of the hash.Hash32 all States share
  calls                \* the IsomorphismHash calls that run concurrently

vars == <<heap, IdCounter, DefaultStateType, Encoding, HashFunc,
          EquivalenceClassMap, ret, steps, accumulator, calls>>

Refs(h) == 1..Len(h)
Ids == 0..MaxId

(* ------------------------------ State ---------------------------------- *)
\* A Go map is a reference: two State objects whose Edges (or Annotations)
\* fields hold the same map see each other's writes.  EdgesMap and
\* AnnotationsMap name the map object a field holds, Edges and Annotations
\* are its contents; make() returns a map no other field holds, named here
\* after the State object being allocated in h.
make(h) == Len(h) + 1

\* NewLazyDfaAnnotatedState(id, encoding, hashFunc), allocating in h
NewLazyDfaAnnotatedState(h, id, encoding, hashFunc) ==
  [Id |-> id, Terminal |-> FALSE, Edges |-> <<>>, EdgesMap |-> make(h),
   Encoding |-> encoding, HashFunc |-> hashFunc, Type |-> LAZYDFAANNOTATED,
   Annotations |-> {}, AnnotationsMap |-> make(h)]

\* The heap after the map held by s.Edges gets the contents edges: every
\* State object holding that map sees them.
WriteEdges(h, s, edges) ==
  [t \in Refs(h) |->
     IF h[t].EdgesMap = h[s].EdgesMap THEN [h[t] EXCEPT !.Edges = edges]
                                      ELSE h[t]]

\* The same for the map held by s.Annotations.
WriteAnnotations(h, s, annotations) ==
  [t \in Refs(h) |->
     IF h[t].AnnotationsMap = h[s].AnnotationsMap
       THEN [h[t] EXCEPT !.Annotations = annotations]
       ELSE h[t]]

GetId(h, s) == h[s].Id

IsTerminal(h, s) == h[s].Terminal

\* FollowEdge: the destination of the label as a sequence of length 0 or 1.
FollowEdge(h, s, edgeTransition) ==
  IF edgeTransition \in DOMAIN h[s].Edges
    THEN <<h[s].Edges[edgeTransition]>>
    ELSE <<>>

\* Mutant of FollowAllEdges: uniqueDestinations is keyed by the id.
FollowAllEdgesUniqueById(h, s) ==
  {CHOOSE d \in {h[s].Edges[l] : l \in DOMAIN h[s].Edges} : GetId(h, d) = id :
     id \in {GetId(h, h[s].Edges[l]) : l \in DOMAIN h[s].Edges}}

\* FollowAllEdges: the distinct destination objects (uniqueDestinations is
\* keyed by the State pointer); the slice lists them in map iteration order,
\* which Go leaves unspecified, so the result is this set in any order.
FollowAllEdges(h, s) == {h[s].Edges[l] : l \in DOMAIN h[s].Edges}

\* Mutant of MachineEdges: the id of s itself is stored for every label.
MachineEdgesOwnId(h, s) == [l \in DOMAIN h[s].Edges |-> GetId(h, s)]

\* MachineEdges: label -> current id of the destination object.
MachineEdges(h, s) == [l \in DOMAIN h[s].Edges |-> GetId(h, h[s].Edges[l])]

\* Mutant of sameMachineEdges: the ids behind the labels are not compared.
sameMachineEdgesLabelsOnly(a, b) ==
  IF Cardinality(DOMAIN a) # Cardinality(DOMAIN b)
    THEN FALSE
    ELSE \A k \in DOMAIN a : k \in DOMAIN b

\* sameMachineEdges(a, b)
sameMachineEdges(a, b) ==
  IF Cardinality(DOMAIN a) # Cardinality(DOMAIN b)
    THEN FALSE
    ELSE \A k \in DOMAIN a : k \in DOMAIN b /\ a[k] = b[k]

(* The canonical encoder (codec handle with Canonical = true): the number   *)
(* of entries, then the entries in ascending key order, key byte then id.   *)
LabelByte(l) == IF l = "a" THEN 97 ELSE 98

RECURSIVE EncodeEntries(_, _)
EncodeEntries(m, keys) ==
  IF keys = {}
    THEN <<>>
    ELSE LET k == CHOOSE x \in keys : \A y \in keys : LabelByte(x) <= LabelByte(y)
         IN  <<LabelByte(k), m[k]>> \o EncodeEntries(m, keys \ {k})

Encode(m) == <<Cardinality(DOMAIN m)>> \o EncodeEntries(m, DOMAIN m)

(* hash.Hash32: Reset() puts the accumulator at the offset basis, Write     *)
(* folds the bytes in, Sum32() reads the accumulator.                       *)
RECURSIVE HashWrite(_, _, _)
HashWrite(acc, bytes, width) ==
  IF bytes = <<>>
    THEN acc
    ELSE HashWrite((acc * 31 + Head(bytes)) % width, Tail(bytes), width)

\* hash.Hash32.Reset(): the accumulator at the offset basis.
HashReset(width) == 7 % width

\* What Sum32() returns after Reset() and Write(bytes).
Sum32(bytes, width) == HashWrite(HashReset(width), bytes, width)

\* Mutant of IsomorphismHash: the number of annotations is hashed with the
\* edges.
IsomorphismHashWithAnnotations(h, s) ==
  IF ~h[s].Encoding
    THEN [hash |-> 0, err |-> "ErrNilEncoder"]
    ELSE IF h[s].HashFunc = Nil
      THEN [hash |-> 0, err |-> "ErrNilHashFunc"]
      ELSE [hash |-> Sum32(Encode(MachineEdges(h, s))
                             \o <<Cardinality(h[s].Annotations)>>,
                           h[s].HashFunc),
            err |-> NoErr]

\* Mutant of IsomorphismHash: the terminal flag is hashed with the edges.
IsomorphismHashWithTerminal(h, s) ==
  IF ~h[s].Encoding
    THEN [hash |-> 0, err |-> "ErrNilEncoder"]
    ELSE IF h[s].HashFunc = Nil
      THEN [hash |-> 0, err |-> "ErrNilHashFunc"]
      ELSE [hash |-> Sum32(Encode(MachineEdges(h, s))
                             \o <<IF h[s].Terminal THEN 1 ELSE 0>>,
                           h[s].HashFunc),
            err |-> NoErr]

\* Mutant of IsomorphismHash: the state's own id is hashed with its edges.
IsomorphismHashWithOwnId(h, s) ==
  IF ~h[s].Encoding
    THEN [hash |-> 0, err |-> "ErrNilEncoder"]
    ELSE IF h[s].HashFunc = Nil
      THEN [hash |-> 0, err |-> "ErrNilHashFunc"]
      ELSE [hash |-> Sum32(Encode(MachineEdges(h, s)) \o <<h[s].Id>>,
                           h[s].HashFunc),
            err |-> NoErr]

\* IsomorphismHash() (uint32, error): the value and the error of a call
\* that finds the hash function as Reset() leaves it.
IsomorphismHash(h, s) ==
  IF ~h[s].Encoding
    THEN [hash |-> 0, err |-> "ErrNilEncoder"]
    ELSE IF h[s].HashFunc = Nil
      THEN [hash |-> 0, err |-> "ErrNilHashFunc"]
      ELSE [hash |-> Sum32(Encode(MachineEdges(h, s)), h[s].HashFunc),
            err |-> NoErr]

\* Mutant of IsomorphismHashOn: s.HashFunc.Reset() is missing.
IsomorphismHashOnNoReset(h, s, acc) ==
  IF ~h[s].Encoding
    THEN [hash |-> 0, err |-> "ErrNilEncoder", accumulator |-> acc]
    ELSE IF h[s].HashFunc = Nil
      THEN [hash |-> 0, err |-> "ErrNilHashFunc", accumulator |-> acc]
      ELSE LET encodedBytes == Encode(MachineEdges(h, s))
               written == HashWrite(acc, encodedBytes, h[s].HashFunc)
           IN  [hash |-> written, err |-> NoErr, accumulator |-> written]

\* Mutant of IsomorphismHashOn: the hash function is checked before the
\* encoder.
IsomorphismHashOnChecksSwapped(h, s, acc) ==
  IF h[s].HashFunc = Nil
    THEN [hash |-> 0, err |-> "ErrNilHashFunc", accumulator |-> acc]
    ELSE IF ~h[s].Encoding
      THEN [hash |-> 0, err |-> "ErrNilEncoder", accumulator |-> acc]
      ELSE LET encodedBytes == Encode(MachineEdges(h, s))
               reset == HashReset(h[s].HashFunc)
               written == HashWrite(reset, encodedBytes, h[s].HashFunc)
           IN  [hash |-> written, err |-> NoErr, accumulator |-> written]

\* s.IsomorphismHash() step by step on the hash function its States share,
\* whose accumulator holds acc when the call begins: the nil checks, the
\* encoding of MachineEdges, s.HashFunc.Reset(), s.HashFunc.Write, and
\* s.HashFunc.Sum32(), which reads the accumulator.  The result carries the
\* accumulator the call leaves behind.
IsomorphismHashOn(h, s, acc) ==
  IF ~h[s].Encoding
    THEN [hash |-> 0, err |-> "ErrNilEncoder", accumulator |-> acc]
    ELSE IF h[s].HashFunc = Nil
      THEN [hash |-> 0, err |-> "ErrNilHashFunc", accumulator |-> acc]
      ELSE LET encodedBytes == Encode(MachineEdges(h, s))
               reset == HashReset(h[s].HashFunc)
               written == HashWrite(reset, encodedBytes, h[s].HashFunc)
           IN  [hash |-> written, err |-> NoErr, accumulator |-> written]

\* The accumulator after IsomorphismHash was called on the States of a
\* sequence, one after the other.
RECURSIVE HashedAll(_, _, _)
HashedAll(h, states, acc) ==
  IF states = <<>>
    THEN acc
    ELSE HashedAll(h, Tail(states), IsomorphismHashOn(h, Head(states), acc).accumulator)

\* Mutant of Clone: the annotations are not copied.
CloneWithoutAnnotations(h, s) ==
  [NewLazyDfaAnnotatedState(h, h[s].Id, h[s].Encoding, h[s].HashFunc)
     EXCEPT !.Edges = h[s].Edges]

\* Mutant of Clone: the clone is given the edge map of s itself, not a copy.
CloneSharingEdges(h, s) ==
  [NewLazyDfaAnnotatedState(h, h[s].Id, h[s].Encoding, h[s].HashFunc)
     EXCEPT !.Edges = h[s].Edges, !.EdgesMap = h[s].EdgesMap,
            !.Annotations = h[s].Annotations]

\* Clone(): a new object with the same id, copies of the edge map and of the
\* annotation set, and whatever else NewLazyDfaAnnotatedState sets.
Clone(h, s) ==
  [NewLazyDfaAnnotatedState(h, h[s].Id, h[s].Encoding, h[s].HashFunc)
     EXCEPT !.Edges = h[s].Edges, !.Annotations = h[s].Annotations]

(* ----------------- State, the variant of state.go --------------------- *)
\* NewLazyDfaState(id, encoding, hashFunc), allocating in h
NewLazyDfaState(h, id, encoding, hashFunc) ==
  [Id |-> id, Terminal |-> FALSE, Edges |-> <<>>, EdgesMap |-> make(h),
   Encoding |-> encoding, HashFunc |-> hashFunc, Type |-> LAZYDFASTATEFUL,
   Annotations |-> {}, AnnotationsMap |-> make(h)]

\* LazyDfaStatefulState.Clone(): a struct literal that sets Id, Terminal,
\* Edges (a new map, filled from s.Edges), Encoding, HashFunc and Type; the
\* Annotations field is left at its zero value, the nil map.
StatefulClone(h, s) ==
  [Id |-> h[s].Id, Terminal |-> h[s].Terminal, Edges |-> h[s].Edges,
   EdgesMap |-> make(h), Encoding |-> h[s].Encoding,
   HashFunc |-> h[s].HashFunc, Type |-> h[s].Type,
   Annotations |-> {}, AnnotationsMap |-> Nil]

\* LazyDfaStatefulState.IsomorphismHash(): no nil checks; a nil codec.Handle
\* panics inside codec.NewEncoderBytes and a nil hash.Hash32 panics at
\* s.HashFunc.Reset().
StatefulIsomorphismHash(h, s) ==
  IF ~h[s].Encoding \/ h[s].HashFunc = Nil
    THEN [hash |-> 0, err |-> "panic"]
    ELSE [hash |-> Sum32(Encode(MachineEdges(h, s)), h[s].HashFunc),
          err |-> NoErr]

(* --------------------------- Init and Next ----------------------------- *)
Returned(op, arg, state, err) ==
  [op |-> op, arg |-> arg, state |-> state, err |-> err]

\* Mutant of NewEncodeHashStateFactory: the state type is not validated.
NewEncodeHashStateFactoryUnchecked(encoding, hashFunc, defaultStateType) ==
  [factory |-> [IdCounter |-> 0, Encoding |-> encoding, HashFunc |-> hashFunc,
                DefaultStateType |-> defaultStateType],
   err |-> NoErr]

\* NewEncodeHashStateFactory(encoding, hashFunc, defaultStateType): the
\* factory (Nil when there is none) and the error it returns.
NewEncodeHashStateFactory(encoding, hashFunc, defaultStateType) ==
  IF defaultStateType # LAZYDFAANNOTATED
    THEN [factory |-> Nil, err |-> "ErrInvalidStateType"]
    ELSE [factory |-> [IdCounter |-> 0, Encoding |-> encoding,
                       HashFunc |-> hashFunc,
                       DefaultStateType |-> defaultStateType],
          err |-> NoErr]

\* A session starts with the factory a call of NewEncodeHashStateFactory has
\* returned without an error and with NewCollisionSafeHashMapRegister(); no
\* State exists yet.
Init ==
  /\ heap = <<>>
  /\ \E session \in Sessions, defaultStateType \in StateTypes :
       LET made == NewEncodeHashStateFactory(session[1], session[2],
                                             defaultStateType)
       IN  /\ made.err = NoErr
           /\ IdCounter = made.factory.IdCounter
           /\ DefaultStateType = made.factory.DefaultStateType
           /\ Encoding = made.factory.Encoding
           /\ HashFunc = made.factory.HashFunc
           /\ accumulator = IF made.factory.HashFunc = Nil
                              THEN 0 ELSE HashReset(made.factory.HashFunc)
  /\ calls = [t \in Threads |-> Idle]
  /\ EquivalenceClassMap = <<>>
  /\ ret = Returned("NewEncodeHashStateFactory", Nil, Nil, NoErr)
  /\ steps = 0

\* EncodeHashStateFactory.NewState()
\* Mutant of NewState: the counter is not incremented.
NewStateNoIncrement ==
  /\ Len(heap) < MaxObjs
  /\ IdCounter <= MaxId
  /\ heap' = Append(heap,
               NewLazyDfaAnnotatedState(heap, IdCounter, Encoding, HashFunc))
  /\ ret' = Returned("NewState", Nil, Len(heap) + 1, NoErr)
  /\ UNCHANGED <<IdCounter, DefaultStateType, Encoding, HashFunc,
                 EquivalenceClassMap, accumulator, calls>>

NewState ==
  /\ Len(heap) < MaxObjs
  /\ IdCounter <= MaxId
  /\ IF DefaultStateType = LAZYDFAANNOTATED
       THEN /\ heap' = Append(heap,
                         NewLazyDfaAnnotatedState(heap, IdCounter, Encoding, HashFunc))
            /\ IdCounter' = IdCounter + 1
            /\ ret' = Returned("NewState", Nil, Len(heap) + 1, NoErr)
       ELSE /\ UNCHANGED <<heap, IdCounter>>
            /\ ret' = Returned("NewState", Nil, Nil, "ErrInvalidStateType")
  /\ UNCHANGED <<DefaultStateType, Encoding, HashFunc, EquivalenceClassMap,
                 accumulator, calls>>

\* Mutant of CloneState: the counter is incremented before the id is assigned.
CloneStateIncrementFirst(orig) ==
  /\ Len(heap) < MaxObjs
  /\ IdCounter <= MaxId
  /\ heap' = Append(heap, [Clone(heap, orig) EXCEPT !.Id = IdCounter + 1])
  /\ IdCounter' = IdCounter + 1
  /\ ret' = Returned("CloneState", orig, Len(heap) + 1, NoErr)
  /\ UNCHANGED <<DefaultStateType, Encoding, HashFunc, EquivalenceClassMap,
                 accumulator, calls>>

\* EncodeHashStateFactory.CloneState(orig): orig.Clone(), then SetId(IdCounter).
CloneState(orig) ==
  /\ Len(heap) < MaxObjs
  /\ IdCounter <= MaxId
  /\ heap' = Append(heap, [Clone(heap, orig) EXCEPT !.Id = IdCounter])
  /\ IdCounter' = IdCounter + 1
  /\ ret' = Returned("CloneState", orig, Len(heap) + 1, NoErr)
  /\ UNCHANGED <<DefaultStateType, Encoding, HashFunc, EquivalenceClassMap,
                 accumulator, calls>>

\* EncodeHashStateFactory.SetIdCounter(countPos)
SetIdCounter(countPos) ==
  /\ IdCounter' = countPos
  /\ ret' = Returned("SetIdCounter", countPos, Nil, NoErr)
  /\ UNCHANGED <<heap, DefaultStateType, Encoding, HashFunc, EquivalenceClassMap,
                 accumulator, calls>>

\* Mutant of SetDefaultStateType: the type is assigned before it is checked.
SetDefaultStateTypeAssignFirst(newType) ==
  /\ DefaultStateType' = newType
  /\ ret' = Returned("SetDefaultStateType", Nil, Nil,
                     IF newType = LAZYDFAANNOTATED
                       THEN NoErr ELSE "ErrInvalidStateType")
  /\ UNCHANGED <<heap, IdCounter, Encoding, HashFunc, EquivalenceClassMap,
                 accumulator, calls>>

\* EncodeHashStateFactory.SetDefaultStateType(newType)
SetDefaultStateType(newType) ==
  /\ IF newType = LAZYDFAANNOTATED
       THEN /\ DefaultStateType' = newType
            /\ ret' = Returned("SetDefaultStateType", Nil, Nil, NoErr)
       ELSE /\ UNCHANGED DefaultStateType
            /\ ret' = Returned("SetDefaultStateType", Nil, Nil, "ErrInvalidStateType")
  /\ UNCHANGED <<heap, IdCounter, Encoding, HashFunc, EquivalenceClassMap,
                 accumulator, calls>>

(* ----------------------- the builder's State calls --------------------- *)
\* What a State method leaves alone: the factory and the register.
BuilderFrame ==
  UNCHANGED <<IdCounter, DefaultStateType, Encoding, HashFunc,
              EquivalenceClassMap, accumulator, calls>>

\* What IsomorphismHash leaves alone besides the States.
HashingFrame ==
  UNCHANGED <<IdCounter, DefaultStateType, Encoding, HashFunc,
              EquivalenceClassMap, calls>>

\* s.Clone() called directly: the clone keeps the id of s.
CloneCall(s) ==
  /\ Len(heap) < MaxObjs
  /\ heap' = Append(heap, Clone(heap, s))
  /\ ret' = Returned("Clone", s, Len(heap) + 1, NoErr)
  /\ BuilderFrame

\* What a State method does: the heap after it and the error it returns.
Done(h, err) == [heap |-> h, err |-> err]

\* The heap and the error s.SetId(id) leaves.
SetIdOn(h, s, id) == Done([h EXCEPT ![s].Id = id], NoErr)

\* s.SetId(id)
SetId(s, id) ==
  LET done == SetIdOn(heap, s, id)
  IN  /\ heap' = done.heap
      /\ ret' = Returned("SetId", Nil, Nil, done.err)
      /\ BuilderFrame

\* The heap and the error s.SetTerminal(terminal) leaves.
SetTerminalOn(h, s, terminal) == Done([h EXCEPT ![s].Terminal = terminal], NoErr)

\* s.SetTerminal(terminal)
SetTerminal(s, terminal) ==
  LET done == SetTerminalOn(heap, s, terminal)
  IN  /\ heap' = done.heap
      /\ ret' = Returned("SetTerminal", Nil, Nil, done.err)
      /\ BuilderFrame

\* The heap and the error s.AddAnnotation(annotation) leaves; an assignment
\* to an entry of a nil map panics.
AddAnnotationOn(h, s, annotation) ==
  IF h[s].AnnotationsMap = Nil
    THEN [heap |-> h, err |-> "panic"]
    ELSE [heap |-> WriteAnnotations(h, s, h[s].Annotations \cup {annotation}),
          err |-> NoErr]

\* s.AddAnnotation(annotation)
AddAnnotation(s, annotation) ==
  LET done == AddAnnotationOn(heap, s, annotation)
  IN  /\ heap' = done.heap
      /\ ret' = Returned("AddAnnotation", Nil, Nil, done.err)
      /\ BuilderFrame

\* Mutant of RemoveAnnotationOn: an annotation that is not present is
\* removed without an error.
RemoveAnnotationOnSilent(h, s, annotation) ==
  [heap |-> WriteAnnotations(h, s, h[s].Annotations \ {annotation}),
   err |-> NoErr]

\* The heap and the error s.RemoveAnnotation(annotation) leaves; a nil map
\* reads as empty.
RemoveAnnotationOn(h, s, annotation) ==
  IF annotation \notin h[s].Annotations
    THEN [heap |-> h, err |-> "ErrAnnotationInvalid"]
    ELSE [heap |-> WriteAnnotations(h, s, h[s].Annotations \ {annotation}),
          err |-> NoErr]

\* s.RemoveAnnotation(annotation)
RemoveAnnotation(s, annotation) ==
  LET done == RemoveAnnotationOn(heap, s, annotation)
  IN  /\ heap' = done.heap
      /\ ret' = Returned("RemoveAnnotation", Nil, Nil, done.err)
      /\ BuilderFrame

\* The edge map of s after s.Edges[edgeTransition] = destination.
EdgesWith(edges, edgeTransition, destination) ==
  [l \in DOMAIN edges \cup {edgeTransition} |->
     IF l = edgeTransition THEN destination ELSE edges[l]]

\* The edge map of s after delete(s.Edges, edgeTransition).
EdgesWithout(edges, edgeTransition) ==
  [l \in DOMAIN edges \ {edgeTransition} |-> edges[l]]

\* Mutant of AddEdge: only the very same edge is refused, another destination
\* replaces the one the label had.
AddEdgeOverwrites(s, edgeTransition, destination) ==
  /\ IF /\ edgeTransition \in DOMAIN heap[s].Edges
        /\ heap[s].Edges[edgeTransition] = destination
       THEN /\ UNCHANGED heap
            /\ ret' = Returned("AddEdge", Nil, Nil, "ErrEdgeAlreadyUsed")
       ELSE /\ heap' = WriteEdges(heap, s,
                            EdgesWith(heap[s].Edges, edgeTransition, destination))
            /\ ret' = Returned("AddEdge", Nil, Nil, NoErr)
  /\ BuilderFrame

\* The heap and the error s.AddEdge(edgeTransition, destination) leaves.
AddEdgeOn(h, s, edgeTransition, destination) ==
  IF edgeTransition \in DOMAIN h[s].Edges
    THEN Done(h, "ErrEdgeAlreadyUsed")
    ELSE Done(WriteEdges(h, s, EdgesWith(h[s].Edges, edgeTransition, destination)),
              NoErr)

\* s.AddEdge(edgeTransition, destination)
AddEdge(s, edgeTransition, destination) ==
  LET done == AddEdgeOn(heap, s, edgeTransition, destination)
  IN  /\ heap' = done.heap
      /\ ret' = Returned("AddEdge", Nil, Nil, done.err)
      /\ BuilderFrame

\* Mutant of RemoveEdgeOn: the destination is compared by id.
RemoveEdgeOnById(h, s, edgeTransition, destination) ==
  IF edgeTransition \notin DOMAIN h[s].Edges
    THEN Done(h, "ErrEdgeNotPresent")
    ELSE IF destination = Nil
              \/ GetId(h, h[s].Edges[edgeTransition]) # GetId(h, destination)
      THEN Done(h, "ErrEdgeNotPresent")
      ELSE Done(WriteEdges(h, s, EdgesWithout(h[s].Edges, edgeTransition)),
                NoErr)

\* s.RemoveEdge(edgeTransition, destination) on the heap h; edgeTo !=
\* destination compares the two State pointers.
RemoveEdgeOn(h, s, edgeTransition, destination) ==
  IF edgeTransition \notin DOMAIN h[s].Edges
    THEN Done(h, "ErrEdgeNotPresent")
    ELSE IF h[s].Edges[edgeTransition] # destination
      THEN Done(h, "ErrEdgeNotPresent")
      ELSE Done(WriteEdges(h, s, EdgesWithout(h[s].Edges, edgeTransition)),
                NoErr)

\* s.RemoveEdge(edgeTransition, destination)
RemoveEdge(s, edgeTransition, destination) ==
  LET done == RemoveEdgeOn(heap, s, edgeTransition, destination)
  IN  /\ heap' = done.heap
      /\ ret' = Returned("RemoveEdge", Nil, Nil, done.err)
      /\ BuilderFrame

\* What IsomorphismHash returned for s.
Hashed(s, result) ==
  [op |-> "IsomorphismHash", arg |-> s, state |-> Nil, err |-> result.err,
   hash |-> result.hash]

\* s.IsomorphismHash() called by the builder
IsomorphismHashCall(s) ==
  LET hashed == IsomorphismHashOn(heap, s, accumulator)
  IN  /\ ret' = Hashed(s, hashed)
      /\ accumulator' = hashed.accumulator
      /\ UNCHANGED heap
      /\ HashingFrame

(* ------------- the builder's calls on the state.go variant ------------- *)
\* NewLazyDfaState(id, Encoding, HashFunc) with the session's capabilities.
NewLazyDfaStateCall(id) ==
  /\ Len(heap) < MaxObjs
  /\ heap' = Append(heap, NewLazyDfaState(heap, id, Encoding, HashFunc))
  /\ ret' = Returned("NewLazyDfaState", Nil, Len(heap) + 1, NoErr)
  /\ BuilderFrame

\* s.Clone() on a LazyDfaStatefulState
StatefulCloneCall(s) ==
  /\ Len(heap) < MaxObjs
  /\ heap' = Append(heap, StatefulClone(heap, s))
  /\ ret' = Returned("Clone", s, Len(heap) + 1, NoErr)
  /\ BuilderFrame

\* s.IsomorphismHash() on a LazyDfaStatefulState
StatefulIsomorphismHashCall(s) ==
  LET hashed == StatefulIsomorphismHash(heap, s)
  IN  /\ ret' = Hashed(s, hashed)
      /\ accumulator' = IF hashed.err = NoErr THEN hashed.hash ELSE accumulator
      /\ UNCHANGED heap
      /\ HashingFrame

(* ------------------- CollisionSafeHashMapRegister ---------------------- *)
\* What a register call hands back: the State, the error, and the map after it.
Answer(state, err, map) == [state |-> state, err |-> err, map |-> map]

\* Mutant of ScanBucket: members are compared by object identity, so only the
\* query itself counts as already registered.
ScanBucketByIdentity(h, stateRef, queryState) ==
  IF \E i \in 1..Len(stateRef) : stateRef[i] = queryState THEN queryState ELSE Nil

\* Mutant of ScanBucket: a bucket's first member is taken for the query's
\* class, so hash equality alone decides equivalence.
ScanBucketHashOnly(h, stateRef, queryState) ==
  IF stateRef = <<>> THEN Nil ELSE stateRef[1]

\* Mutant of ScanBucket: the scan starts at the second member of the bucket.
ScanBucketSkipFirst(h, stateRef, queryState) ==
  LET hits == {i \in 2..Len(stateRef) :
                 MachineEdges(h, queryState) = MachineEdges(h, stateRef[i])}
  IN  IF hits = {}
        THEN Nil
        ELSE stateRef[CHOOSE i \in hits : \A j \in hits : i <= j]

\* Mutant of ScanBucket: a member matches only if its terminal flag equals
\* the query's too.
ScanBucketSameTerminal(h, stateRef, queryState) ==
  LET hits == {i \in 1..Len(stateRef) :
                 /\ MachineEdges(h, queryState) = MachineEdges(h, stateRef[i])
                 /\ h[queryState].Terminal = h[stateRef[i]].Terminal}
  IN  IF hits = {}
        THEN Nil
        ELSE stateRef[CHOOSE i \in hits : \A j \in hits : i <= j]

\* The first state of the bucket (in list order) with the query's
\* MachineEdges, or Nil when the scan finds none.
ScanBucket(h, stateRef, queryState) ==
  LET queryMachineEdges == MachineEdges(h, queryState)
      hits == {i \in 1..Len(stateRef) :
                 sameMachineEdges(queryMachineEdges, MachineEdges(h, stateRef[i]))}
  IN  IF hits = {}
        THEN Nil
        ELSE stateRef[CHOOSE i \in hits : \A j \in hits : i <= j]

\* GetEquivalenceClass(queryState) on the register whose map is `map`.
\* Mutant of GetEquivalenceClassOn: the error of IsomorphismHash is dropped
\* and the zero hash it came with is used as the key.
GetEquivalenceClassOnHashErrDropped(h, map, queryState) ==
  IF queryState = Nil
    THEN Answer(Nil, "ErrRegisterNilState", map)
    ELSE LET hashed == IsomorphismHash(h, queryState)
         IN  IF hashed.hash \notin DOMAIN map
               THEN Answer(queryState, NoErr,
                           [k \in DOMAIN map \cup {hashed.hash} |->
                              IF k = hashed.hash THEN <<queryState>> ELSE map[k]])
               ELSE LET found == ScanBucket(h, map[hashed.hash], queryState)
                    IN  IF found # Nil
                          THEN Answer(found, NoErr, map)
                          ELSE Answer(queryState, NoErr,
                                      [map EXCEPT ![hashed.hash] =
                                         Append(@, queryState)])

\* Mutant of GetEquivalenceClassOn: a query that collides with a bucket of
\* other classes is returned without being appended.
GetEquivalenceClassOnCollisionNotListed(h, map, queryState) ==
  IF queryState = Nil
    THEN Answer(Nil, "ErrRegisterNilState", map)
    ELSE LET hashed == IsomorphismHash(h, queryState)
         IN  IF hashed.err # NoErr
               THEN Answer(Nil, hashed.err, map)
               ELSE IF hashed.hash \notin DOMAIN map
                 THEN Answer(queryState, NoErr,
                             [k \in DOMAIN map \cup {hashed.hash} |->
                                IF k = hashed.hash THEN <<queryState>> ELSE map[k]])
                 ELSE LET found == ScanBucket(h, map[hashed.hash], queryState)
                      IN  IF found # Nil
                            THEN Answer(found, NoErr, map)
                            ELSE Answer(queryState, NoErr, map)

\* Mutant of GetEquivalenceClassOn: the query is appended to its bucket even
\* when the bucket holds its class.
GetEquivalenceClassOnAlwaysAppends(h, map, queryState) ==
  IF queryState = Nil
    THEN Answer(Nil, "ErrRegisterNilState", map)
    ELSE LET hashed == IsomorphismHash(h, queryState)
         IN  IF hashed.err # NoErr
               THEN Answer(Nil, hashed.err, map)
               ELSE IF hashed.hash \notin DOMAIN map
                 THEN Answer(queryState, NoErr,
                             [k \in DOMAIN map \cup {hashed.hash} |->
                                IF k = hashed.hash THEN <<queryState>> ELSE map[k]])
                 ELSE LET found == ScanBucket(h, map[hashed.hash], queryState)
                      IN  Answer(IF found # Nil THEN found ELSE queryState, NoErr,
                                 [map EXCEPT ![hashed.hash] = Append(@, queryState)])

GetEquivalenceClassOn(h, map, queryState) ==
  IF queryState = Nil
    THEN Answer(Nil, "ErrRegisterNilState", map)
    ELSE LET hashed == IsomorphismHash(h, queryState)
         IN  IF hashed.err # NoErr
               THEN Answer(Nil, hashed.err, map)
               ELSE IF hashed.hash \notin DOMAIN map
                 THEN Answer(queryState, NoErr,
                             [k \in DOMAIN map \cup {hashed.hash} |->
                                IF k = hashed.hash THEN <<queryState>> ELSE map[k]])
                 ELSE LET found == ScanBucket(h, map[hashed.hash], queryState)
                      IN  IF found # Nil
                            THEN Answer(found, NoErr, map)
                            ELSE Answer(queryState, NoErr,
                                        [map EXCEPT ![hashed.hash] =
                                           Append(@, queryState)])

\* The orders in which a slice built by ranging over a Go map may list S.
RECURSIVE Orders(_)
Orders(S) ==
  IF S = {}
    THEN {<<>>}
    ELSE UNION {{<<x>> \o rest : rest \in Orders(S \ {x})} : x \in S}

\* Mutant of PushUnseen: the ids are marked as seen, nothing is pushed.
PushUnseenMarkOnly(h, seenStates, stack, pushed, order) ==
  [seenStates |-> seenStates \cup {GetId(h, order[i]) : i \in 1..Len(order)},
   stack |-> stack, pushed |-> pushed]

\* Mutant of PushUnseen: the loop stops after the first push.
PushUnseenFirstOnly(h, seenStates, stack, pushed, order) ==
  LET unseen == {i \in 1..Len(order) : GetId(h, order[i]) \notin seenStates}
  IN  IF unseen = {}
        THEN [seenStates |-> seenStates, stack |-> stack, pushed |-> pushed]
        ELSE LET next == order[CHOOSE i \in unseen : \A j \in unseen : i <= j]
             IN  [seenStates |-> seenStates \cup {GetId(h, next)},
                  stack |-> Append(stack, next), pushed |-> Append(pushed, next)]

\* The inner loop of Initialize over curr.FollowAllEdges(), in one order:
\* push every destination whose id is not yet in seenStates, and mark the id.
RECURSIVE PushUnseen(_, _, _, _, _)
PushUnseen(h, seenStates, stack, pushed, order) ==
  IF order = <<>>
    THEN [seenStates |-> seenStates, stack |-> stack, pushed |-> pushed]
    ELSE LET next == Head(order)
             nextId == GetId(h, next)
         IN  IF nextId \in seenStates
               THEN PushUnseen(h, seenStates, stack, pushed, Tail(order))
               ELSE PushUnseen(h, seenStates \cup {nextId}, Append(stack, next),
                               Append(pushed, next), Tail(order))

\* The outer loop of Initialize: every run it can make from this point, one
\* per order FollowAllEdges may produce.  A run records its error, the map it
\* leaves, the states it looked up (visited) and those it pushed, in order.
RECURSIVE Walk(_, _, _, _, _, _)
Walk(h, map, seenStates, stack, visited, pushed) ==
  IF stack = <<>>
    THEN {[err |-> NoErr, map |-> map, visited |-> visited, pushed |-> pushed]}
    ELSE LET curr == stack[Len(stack)]
             rest == SubSeq(stack, 1, Len(stack) - 1)
             got == GetEquivalenceClassOn(h, map, curr)
             looked == Append(visited, curr)
         IN  IF got.err # NoErr
               THEN {[err |-> got.err, map |-> got.map,
                      visited |-> looked, pushed |-> pushed]}
               ELSE IF GetId(h, curr) # GetId(h, got.state)
                 THEN {[err |-> "ErrNonMinimalMachine", map |-> got.map,
                        visited |-> looked, pushed |-> pushed]}
                 ELSE UNION {
                        LET after == PushUnseen(h, seenStates, rest, pushed, order)
                        IN  Walk(h, got.map, after.seenStates, after.stack,
                                 looked, after.pushed)
                        : order \in Orders(FollowAllEdges(h, curr))}

\* Initialize(startState): Reset(), the nil check, then the walk.
\* Mutant of InitializeRuns: the start state is not marked as seen.
InitializeRunsStartUnseen(h, startState) ==
  IF startState = Nil
    THEN {[err |-> "ErrRegisterNilState", map |-> <<>>,
           visited |-> <<>>, pushed |-> <<>>]}
    ELSE Walk(h, <<>>, {}, <<startState>>, <<>>, <<startState>>)

\* Mutant of InitializeRuns: the call to Reset is missing.
InitializeRunsNoReset(h, startState) ==
  IF startState = Nil
    THEN {[err |-> "ErrRegisterNilState", map |-> EquivalenceClassMap,
           visited |-> <<>>, pushed |-> <<>>]}
    ELSE Walk(h, EquivalenceClassMap, {GetId(h, startState)}, <<startState>>,
              <<>>, <<startState>>)

InitializeRuns(h, startState) ==
  IF startState = Nil
    THEN {[err |-> "ErrRegisterNilState", map |-> <<>>,
           visited |-> <<>>, pushed |-> <<>>]}
    ELSE Walk(h, <<>>, {GetId(h, startState)}, <<startState>>, <<>>,
              <<startState>>)

\* What a register method leaves alone: the State objects and the factory.
RegisterFrame ==
  UNCHANGED <<heap, IdCounter, DefaultStateType, Encoding, HashFunc, calls>>

\* Mutant of GetEquivalenceClass: a query that is answered with another
\* State is given the id of that State.
GetEquivalenceClassRenumbers(queryState) ==
  LET got == GetEquivalenceClassOn(heap, EquivalenceClassMap, queryState)
  IN  /\ EquivalenceClassMap' = got.map
      /\ ret' = Returned("GetEquivalenceClass", queryState, got.state, got.err)
      /\ accumulator' = IF queryState = Nil
                          THEN accumulator
                          ELSE HashedAll(heap, <<queryState>>, accumulator)
      /\ heap' = IF got.err = NoErr /\ got.state # queryState
                   THEN [heap EXCEPT ![queryState].Id = heap[got.state].Id]
                   ELSE heap
      /\ UNCHANGED <<IdCounter, DefaultStateType, Encoding, HashFunc, calls>>

\* r.GetEquivalenceClass(queryState)
GetEquivalenceClass(queryState) ==
  LET got == GetEquivalenceClassOn(heap, EquivalenceClassMap, queryState)
  IN  /\ EquivalenceClassMap' = got.map
      /\ ret' = Returned("GetEquivalenceClass", queryState, got.state, got.err)
      /\ accumulator' = IF queryState = Nil
                          THEN accumulator
                          ELSE HashedAll(heap, <<queryState>>, accumulator)
      /\ RegisterFrame

\* Mutant of Reset: the map is kept.
ResetKeepsMap ==
  /\ UNCHANGED <<EquivalenceClassMap, accumulator>>
  /\ ret' = Returned("Reset", Nil, Nil, NoErr)
  /\ RegisterFrame

\* r.Reset()
Reset ==
  /\ EquivalenceClassMap' = <<>>
  /\ ret' = Returned("Reset", Nil, Nil, NoErr)
  /\ UNCHANGED accumulator
  /\ RegisterFrame

\* r.Initialize(startState)
Initialize(startState) ==
  \E run \in InitializeRuns(heap, startState) :
    /\ EquivalenceClassMap' = run.map
    /\ ret' = Returned("Initialize", startState, Nil, run.err)
    /\ accumulator' = HashedAll(heap, run.visited, accumulator)
    /\ RegisterFrame

(* ---------------- the builder reads a State's edges ------------------- *)
\* The slices FollowAllEdges may return: destinationStates lists the keys of
\* uniqueDestinations in the order the map iteration yields them.
FollowAllEdgesSlices(h, s) == Orders(FollowAllEdges(h, s))

\* s.FollowAllEdges() called by the builder
FollowAllEdgesCall(s) ==
  /\ \E slice \in FollowAllEdgesSlices(heap, s) :
       ret' = [op |-> "FollowAllEdges", arg |-> s, state |-> Nil,
               err |-> NoErr, slice |-> slice]
  /\ UNCHANGED heap
  /\ BuilderFrame

\* s.MachineEdges() called by the builder
MachineEdgesCall(s) ==
  /\ ret' = [op |-> "MachineEdges", arg |-> s, state |-> Nil, err |-> NoErr,
             edges |-> MachineEdges(heap, s)]
  /\ UNCHANGED heap
  /\ BuilderFrame

(* -------------- the builder reads a State's annotations ---------------- *)

\* The slices s.GetAnnotations() may return: the keys of s.Annotations, in
\* any order (the order of a map range is not fixed).
GetAnnotations(h, s) == Orders(h[s].Annotations)

\* s.GetAnnotations()
GetAnnotationsCall(s) ==
  /\ \E slice \in GetAnnotations(heap, s) :
       ret' = [op |-> "GetAnnotations", arg |-> s, state |-> Nil,
               err |-> NoErr, slice |-> slice]
  /\ UNCHANGED heap
  /\ BuilderFrame

(* ------------- the edge methods of the state.go variant --------------- *)
\* LazyDfaStatefulState.GetId()
StatefulGetId(h, s) == h[s].Id

\* LazyDfaStatefulState.IsTerminal()
StatefulIsTerminal(h, s) == h[s].Terminal

\* LazyDfaStatefulState.SetId(id)
StatefulSetIdOn(h, s, id) == Done([h EXCEPT ![s].Id = id], NoErr)

\* LazyDfaStatefulState.SetTerminal(terminal)
StatefulSetTerminalOn(h, s, terminal) ==
  Done([h EXCEPT ![s].Terminal = terminal], NoErr)

\* LazyDfaStatefulState.AddEdge(edgeTransition, destination)
StatefulAddEdgeOn(h, s, edgeTransition, destination) ==
  IF edgeTransition \in DOMAIN h[s].Edges
    THEN Done(h, "ErrEdgeAlreadyUsed")
    ELSE Done(WriteEdges(h, s, EdgesWith(h[s].Edges, edgeTransition, destination)),
              NoErr)

\* Mutant of StatefulRemoveEdgeOn: the destination is not compared.
StatefulRemoveEdgeOnAnyDestination(h, s, edgeTransition, destination) ==
  IF edgeTransition \notin DOMAIN h[s].Edges
    THEN Done(h, "ErrEdgeNotPresent")
    ELSE Done(WriteEdges(h, s, EdgesWithout(h[s].Edges, edgeTransition)), NoErr)

\* LazyDfaStatefulState.RemoveEdge(edgeTransition, destination)
StatefulRemoveEdgeOn(h, s, edgeTransition, destination) ==
  IF edgeTransition \notin DOMAIN h[s].Edges
    THEN Done(h, "ErrEdgeNotPresent")
    ELSE IF h[s].Edges[edgeTransition] # destination
      THEN Done(h, "ErrEdgeNotPresent")
      ELSE Done(WriteEdges(h, s, EdgesWithout(h[s].Edges, edgeTransition)),
                NoErr)

\* LazyDfaStatefulState.FollowEdge(edgeTransition)
StatefulFollowEdge(h, s, edgeTransition) ==
  IF edgeTransition \in DOMAIN h[s].Edges
    THEN <<h[s].Edges[edgeTransition]>>
    ELSE <<>>

\* LazyDfaStatefulState.FollowAllEdges(), as the set of its elements.
StatefulFollowAllEdges(h, s) == {h[s].Edges[l] : l \in DOMAIN h[s].Edges}

\* LazyDfaStatefulState.MachineEdges(); the destinations of a
\* LazyDfaStatefulState are LazyDfaStatefulStates here.
StatefulMachineEdges(h, s) ==
  [l \in DOMAIN h[s].Edges |-> StatefulGetId(h, h[s].Edges[l])]

(* ------------------ the two variants side by side ---------------------- *)
\* The States are made in pairs: pair k is a LazyDfaAnnotatedState and a
\* LazyDfaStatefulState, and every call is made on both of a pair, an edge
\* of the one leading to the annotated and of the other to the stateful
\* State of the destination pair.
Pairs(h) == 1..(Len(h) \div 2)
Annotated(k) == IF k = Nil THEN Nil ELSE 2 * k - 1
Stateful(k) == IF k = Nil THEN Nil ELSE 2 * k
PairOf(s) == (s + 1) \div 2

\* What a call on both States of a pair returned.
ReturnedBoth(op, k, annotatedErr, statefulErr) ==
  [op |-> op, arg |-> k, state |-> Nil, err |-> annotatedErr,
   statefulErr |-> statefulErr]

\* The calls on both: the annotated State first, then the stateful one.
Both(op, k, annotated, stateful) ==
  /\ heap' = stateful.heap
  /\ ret' = ReturnedBoth(op, k, annotated.err, stateful.err)
  /\ BuilderFrame

\* NewLazyDfaAnnotatedState(id, ...) and NewLazyDfaState(id, ...)
NewBoth(id) ==
  /\ Len(heap) \div 2 < MaxObjs
  /\ LET annotated == Append(heap, NewLazyDfaAnnotatedState(heap, id, Encoding,
                                                           HashFunc))
     IN  heap' = Append(annotated,
                        NewLazyDfaState(annotated, id, Encoding, HashFunc))
  /\ ret' = ReturnedBoth("New", Len(heap) \div 2 + 1, NoErr, NoErr)
  /\ BuilderFrame

SetIdBoth(k, id) ==
  LET annotated == SetIdOn(heap, Annotated(k), id)
      stateful  == StatefulSetIdOn(annotated.heap, Stateful(k), id)
  IN  Both("SetId", k, annotated, stateful)

SetTerminalBoth(k, terminal) ==
  LET annotated == SetTerminalOn(heap, Annotated(k), terminal)
      stateful  == StatefulSetTerminalOn(annotated.heap, Stateful(k), terminal)
  IN  Both("SetTerminal", k, annotated, stateful)

AddEdgeBoth(k, edgeTransition, d) ==
  LET annotated == AddEdgeOn(heap, Annotated(k), edgeTransition, Annotated(d))
      stateful  == StatefulAddEdgeOn(annotated.heap, Stateful(k),
                                     edgeTransition, Stateful(d))
  IN  Both("AddEdge", k, annotated, stateful)

RemoveEdgeBoth(k, edgeTransition, d) ==
  LET annotated == RemoveEdgeOn(heap, Annotated(k), edgeTransition, Annotated(d))
      stateful  == StatefulRemoveEdgeOn(annotated.heap, Stateful(k),
                                        edgeTransition, Stateful(d))
  IN  Both("RemoveEdge", k, annotated, stateful)

(* ------------- IsomorphismHash calls that run concurrently ------------- *)
\* A goroutine t runs s.IsomorphismHash() in four steps, between which the
\* other goroutine may run: the nil checks and the encoding, which touch
\* nothing shared; s.HashFunc.Reset(); s.HashFunc.Write(encodedBytes);
\* s.HashFunc.Sum32().  The hash function is the one all States share.
ConcurrentFrame ==
  UNCHANGED <<heap, IdCounter, DefaultStateType, Encoding, HashFunc,
              EquivalenceClassMap>>

\* No goroutine is inside IsomorphismHash.
AllIdle == \A t \in Threads : calls[t].pc = "idle"

\* The nil checks and encoder.Encode(s.MachineEdges())
BeginIsomorphismHash(t, s) ==
  /\ calls[t].pc = "idle"
  /\ calls' = [calls EXCEPT ![t] =
       IF ~heap[s].Encoding
         THEN [pc |-> "done", s |-> s, encodedBytes |-> <<>>, hash |-> 0,
               err |-> "ErrNilEncoder"]
         ELSE IF heap[s].HashFunc = Nil
           THEN [pc |-> "done", s |-> s, encodedBytes |-> <<>>, hash |-> 0,
                 err |-> "ErrNilHashFunc"]
           ELSE [pc |-> "encoded", s |-> s,
                 encodedBytes |-> Encode(MachineEdges(heap, s)), hash |-> 0,
                 err |-> NoErr]]
  /\ UNCHANGED <<accumulator, ret>>
  /\ ConcurrentFrame

\* s.HashFunc.Reset()
ResetStep(t) ==
  /\ calls[t].pc = "encoded"
  /\ accumulator' = HashReset(heap[calls[t].s].HashFunc)
  /\ calls' = [calls EXCEPT ![t].pc = "reset"]
  /\ UNCHANGED ret
  /\ ConcurrentFrame

\* s.HashFunc.Write(encodedBytes)
WriteStep(t) ==
  /\ calls[t].pc = "reset"
  /\ accumulator' = HashWrite(accumulator, calls[t].encodedBytes,
                              heap[calls[t].s].HashFunc)
  /\ calls' = [calls EXCEPT ![t].pc = "written"]
  /\ UNCHANGED ret
  /\ ConcurrentFrame

\* return s.HashFunc.Sum32(), nil
Sum32Step(t) ==
  /\ calls[t].pc = "written"
  /\ calls' = [calls EXCEPT ![t].pc = "done", ![t].hash = accumulator]
  /\ ret' = Hashed(calls[t].s, [hash |-> accumulator, err |-> NoErr])
  /\ UNCHANGED accumulator
  /\ ConcurrentFrame

(* --------------------------- specifications ---------------------------- *)
\* One more call, while the behaviour is shorter than `bound` calls.
Tick(bound) == steps < bound /\ steps' = steps + 1

\* The register and a builder that makes states with the factory and rewires
\* and renumbers them between the register's calls.
Next ==
  \/ Tick(MaxSteps) /\ NewState
  \/ \E s \in Refs(heap), id \in Ids : Tick(MaxSteps) /\ SetId(s, id)
  \/ \E s \in Refs(heap), l \in Labels, d \in Refs(heap) :
       Tick(MaxSteps) /\ AddEdge(s, l, d)
  \/ \E s \in Refs(heap), l \in Labels, d \in Refs(heap) \cup {Nil} :
       Tick(MaxSteps) /\ RemoveEdge(s, l, d)
  \/ \E queryState \in Refs(heap) \cup {Nil} :
       Tick(MaxSteps) /\ GetEquivalenceClass(queryState)
  \/ Tick(MaxSteps) /\ Reset
  \/ \E startState \in Refs(heap) \cup {Nil} :
       Tick(MaxSteps) /\ Initialize(startState)

Spec == Init /\ [][Next]_vars

\* A builder that makes, clones and wires states, and Initialize on the graph.
NextWalk ==
  \/ Tick(MaxWalkSteps) /\ NewState
  \/ \E s \in Refs(heap) : Tick(MaxWalkSteps) /\ CloneCall(s)
  \/ \E s \in Refs(heap), l \in Labels, d \in Refs(heap) :
       Tick(MaxWalkSteps) /\ AddEdge(s, l, d)
  \/ \E startState \in Refs(heap) \cup {Nil} :
       Tick(MaxWalkSteps) /\ Initialize(startState)

SpecWalk == Init /\ [][NextWalk]_vars

\* The register over states whose terminal flag and annotations change.
NextFlags ==
  \/ Tick(MaxSteps) /\ NewState
  \/ \E s \in Refs(heap), l \in Labels, d \in Refs(heap) :
       Tick(MaxSteps) /\ AddEdge(s, l, d)
  \/ \E s \in Refs(heap), terminal \in BOOLEAN :
       Tick(MaxSteps) /\ SetTerminal(s, terminal)
  \/ \E s \in Refs(heap), annotation \in Annots :
       Tick(MaxSteps) /\ AddAnnotation(s, annotation)
  \/ \E s \in Refs(heap), annotation \in Annots :
       Tick(MaxSteps) /\ RemoveAnnotation(s, annotation)
  \/ \E queryState \in Refs(heap) \cup {Nil} :
       Tick(MaxSteps) /\ GetEquivalenceClass(queryState)
  \/ \E startState \in Refs(heap) \cup {Nil} :
       Tick(MaxSteps) /\ Initialize(startState)

SpecFlags == Init /\ [][NextFlags]_vars

\* The factory alone; MaxObjs and MaxId bound it.
NextFactory ==
  \/ NewState /\ UNCHANGED steps
  \/ \E orig \in Refs(heap) : CloneState(orig) /\ UNCHANGED steps
  \/ \E countPos \in Ids : SetIdCounter(countPos) /\ UNCHANGED steps
  \/ \E newType \in StateTypes : SetDefaultStateType(newType) /\ UNCHANGED steps

SpecFactory == Init /\ [][NextFactory]_vars

\* A builder that makes, clones, wires, annotates and renumbers states.
NextClone ==
  \/ Tick(MaxCloneSteps) /\ NewState
  \/ \E orig \in Refs(heap) : Tick(MaxCloneSteps) /\ CloneState(orig)
  \/ \E s \in Refs(heap) : Tick(MaxCloneSteps) /\ CloneCall(s)
  \/ \E s \in Refs(heap), id \in Ids : Tick(MaxCloneSteps) /\ SetId(s, id)
  \/ \E s \in Refs(heap), terminal \in BOOLEAN :
       Tick(MaxCloneSteps) /\ SetTerminal(s, terminal)
  \/ \E s \in Refs(heap), annotation \in Annots :
       Tick(MaxCloneSteps) /\ AddAnnotation(s, annotation)
  \/ \E s \in Refs(heap), annotation \in Annots :
       Tick(MaxCloneSteps) /\ RemoveAnnotation(s, annotation)
  \/ \E s \in Refs(heap), l \in Labels, d \in Refs(heap) :
       Tick(MaxCloneSteps) /\ AddEdge(s, l, d)
  \/ \E s \in Refs(heap), l \in Labels, d \in Refs(heap) \cup {Nil} :
       Tick(MaxCloneSteps) /\ RemoveEdge(s, l, d)

SpecClone == Init /\ [][NextClone]_vars

\* A builder over the LazyDfaStatefulState variant of state.go.
NextStateful ==
  \/ \E id \in Ids : Tick(MaxCloneSteps) /\ NewLazyDfaStateCall(id)
  \/ \E s \in Refs(heap) : Tick(MaxCloneSteps) /\ StatefulCloneCall(s)
  \/ \E s \in Refs(heap), terminal \in BOOLEAN :
       Tick(MaxCloneSteps) /\ SetTerminal(s, terminal)
  \/ \E s \in Refs(heap), annotation \in Annots :
       Tick(MaxCloneSteps) /\ AddAnnotation(s, annotation)
  \/ \E s \in Refs(heap), annotation \in Annots :
       Tick(MaxCloneSteps) /\ RemoveAnnotation(s, annotation)
  \/ \E s \in Refs(heap), l \in Labels, d \in Refs(heap) :
       Tick(MaxCloneSteps) /\ AddEdge(s, l, d)
  \/ \E s \in Refs(heap) : Tick(MaxCloneSteps) /\ StatefulIsomorphismHashCall(s)

SpecStateful == Init /\ [][NextStateful]_vars

\* A builder that wires, renumbers and flags states and asks for hashes.
NextHash ==
  \/ Tick(MaxSteps) /\ NewState
  \/ \E s \in Refs(heap), id \in Ids : Tick(MaxSteps) /\ SetId(s, id)
  \/ \E s \in Refs(heap) : Tick(MaxSteps) /\ SetTerminal(s, TRUE)
  \/ \E s \in Refs(heap), annotation \in Annots :
       Tick(MaxSteps) /\ AddAnnotation(s, annotation)
  \/ \E s \in Refs(heap), l \in Labels, d \in Refs(heap) :
       Tick(MaxSteps) /\ AddEdge(s, l, d)
  \/ \E s \in Refs(heap), l \in Labels :
       Tick(MaxSteps) /\ heap[s].Edges # <<>>
         /\ RemoveEdge(s, l, IF l \in DOMAIN heap[s].Edges
                               THEN heap[s].Edges[l] ELSE Nil)
  \/ \E s \in Refs(heap) : Tick(MaxSteps) /\ IsomorphismHashCall(s)

SpecHash == Init /\ [][NextHash]_vars

\* A builder that wires and renumbers states and reads their edges back.
NextEdges ==
  \/ Tick(MaxCloneSteps) /\ NewState
  \/ \E s \in Refs(heap) : Tick(MaxCloneSteps) /\ CloneCall(s)
  \/ \E s \in Refs(heap), id \in Ids : Tick(MaxCloneSteps) /\ SetId(s, id)
  \/ \E s \in Refs(heap), l \in Labels, d \in Refs(heap) :
       Tick(MaxCloneSteps) /\ AddEdge(s, l, d)
  \/ \E s \in Refs(heap), l \in Labels, d \in Refs(heap) \cup {Nil} :
       Tick(MaxCloneSteps) /\ RemoveEdge(s, l, d)
  \/ \E s \in Refs(heap) : Tick(MaxCloneSteps) /\ FollowAllEdgesCall(s)
  \/ \E s \in Refs(heap) : Tick(MaxCloneSteps) /\ MachineEdgesCall(s)

SpecEdges == Init /\ [][NextEdges]_vars

\* The builder annotates LazyDfaAnnotatedStates, two annotation values.
NextAnnotations ==
  \/ Tick(MaxCloneSteps) /\ NewState
  \/ \E s \in Refs(heap) : Tick(MaxCloneSteps) /\ CloneCall(s)
  \/ \E s \in Refs(heap), annotation \in AnnotationValues :
       Tick(MaxCloneSteps) /\ AddAnnotation(s, annotation)
  \/ \E s \in Refs(heap), annotation \in AnnotationValues :
       Tick(MaxCloneSteps) /\ RemoveAnnotation(s, annotation)
  \/ \E s \in Refs(heap) : Tick(MaxCloneSteps) /\ GetAnnotationsCall(s)

SpecAnnotations == Init /\ [][NextAnnotations]_vars

\* The builder drives a LazyDfaAnnotatedState and a LazyDfaStatefulState
\* through the same calls.
NextKernel ==
  \/ \E id \in Ids : Tick(MaxCloneSteps) /\ NewBoth(id)
  \/ \E k \in Pairs(heap), id \in Ids : Tick(MaxCloneSteps) /\ SetIdBoth(k, id)
  \/ \E k \in Pairs(heap), terminal \in BOOLEAN :
       Tick(MaxCloneSteps) /\ SetTerminalBoth(k, terminal)
  \/ \E k \in Pairs(heap), l \in Labels, d \in Pairs(heap) :
       Tick(MaxCloneSteps) /\ AddEdgeBoth(k, l, d)
  \/ \E k \in Pairs(heap), l \in Labels, d \in Pairs(heap) \cup {Nil} :
       Tick(MaxCloneSteps) /\ RemoveEdgeBoth(k, l, d)

SpecKernel == Init /\ [][NextKernel]_vars

\* The builder makes a graph; then two goroutines each call IsomorphismHash
\* once, on any States, while nothing changes a State.
NextConcurrent ==
  \/ AllIdle /\ Tick(MaxCloneSteps) /\ NewState
  \/ \E s \in Refs(heap), l \in Labels, d \in Refs(heap) :
       AllIdle /\ Tick(MaxCloneSteps) /\ AddEdge(s, l, d)
  \/ \E t \in Threads, s \in Refs(heap) :
       BeginIsomorphismHash(t, s) /\ UNCHANGED steps
  \/ \E t \in Threads : ResetStep(t) /\ UNCHANGED steps
  \/ \E t \in Threads : WriteStep(t) /\ UNCHANGED steps
  \/ \E t \in Threads : Sum32Step(t) /\ UNCHANGED steps

SpecConcurrent == Init /\ [][NextConcurrent]_vars

\* The builder makes States with ids, edges, terminal flags and annotations
\* and calls every method of the register.
NextRegister ==
  \/ Tick(MaxSteps) /\ NewState
  \/ \E s \in Refs(heap), id \in Ids : Tick(MaxSteps) /\ SetId(s, id)
  \/ \E s \in Refs(heap) : Tick(MaxSteps) /\ SetTerminal(s, TRUE)
  \/ \E s \in Refs(heap), annotation \in Annots :
       Tick(MaxSteps) /\ AddAnnotation(s, annotation)
  \/ \E s \in Refs(heap), l \in Labels, d \in Refs(heap) :
       Tick(MaxSteps) /\ AddEdge(s, l, d)
  \/ \E queryState \in Refs(heap) \cup {Nil} :
       Tick(MaxSteps) /\ GetEquivalenceClass(queryState)
  \/ Tick(MaxSteps) /\ Reset
  \/ \E startState \in Refs(heap) \cup {Nil} :
       Tick(MaxSteps) /\ Initialize(startState)

SpecRegister == Init /\ [][NextRegister]_vars

(* ------------------------------ claims --------------------------------- *)
\* The states a register map lists, and the State objects reachable from one.
Listed(map) == UNION {{map[k][i] : i \in 1..Len(map[k])} : k \in DOMAIN map}

RECURSIVE Closure(_, _)
Closure(h, S) ==
  LET T == S \cup UNION {FollowAllEdges(h, s) : s \in S}
  IN  IF T = S THEN S ELSE Closure(h, T)

Reachable(h, start) == Closure(h, {start})

\* p and q have equal MachineEdges: the same labels, each to the same id.
SameEdges(h, p, q) == MachineEdges(h, p) = MachineEdges(h, q)

\* The call just made, as ret' records it.
Called(op) == ret'.op = op

\* C1: when GetEquivalenceClass(q1) has returned q1 itself and the next call
\* is GetEquivalenceClass(q2) for another object q2 with equal MachineEdges,
\* that call returns q1 again, without error, and leaves every bucket as it was.
C1_SecondQueryGetsFirst ==
  [][ ( /\ ret.op = "GetEquivalenceClass" /\ ret.err = NoErr
        /\ ret.state = ret.arg
        /\ Called("GetEquivalenceClass")
        /\ ret'.arg \notin {Nil, ret.arg}
        /\ SameEdges(heap, ret'.arg, ret.arg) )
      => ( /\ ret'.err = NoErr
           /\ ret'.state = ret.arg
           /\ EquivalenceClassMap' = EquivalenceClassMap ) ]_vars

\* C1 witness: a query was answered with another, already listed object.
C1_Witness ==
  /\ ret.op = "GetEquivalenceClass" /\ ret.err = NoErr
  /\ ret.state # ret.arg
  /\ ret.state \in Listed(EquivalenceClassMap)
  /\ ret.arg \notin Listed(EquivalenceClassMap)

\* The bucket the register keeps for the hash of q (empty when it has none).
BucketOf(h, map, q) ==
  LET hashed == IsomorphismHash(h, q)
  IN  IF hashed.err = NoErr /\ hashed.hash \in DOMAIN map
        THEN map[hashed.hash]
        ELSE <<>>

IsPrefix(s, t) == Len(s) <= Len(t) /\ SubSeq(t, 1, Len(s)) = s

Members(bucket) == {bucket[i] : i \in 1..Len(bucket)}

\* C2: whatever the hash function, a successful GetEquivalenceClass(q)
\* returns a listed state with the MachineEdges of q; it drops nothing from
\* any bucket; and when no member of q's bucket has the MachineEdges of q
\* (an empty bucket, or only colliding states) it returns q and appends q.
C2_CollisionSafe ==
  [][ (Called("GetEquivalenceClass") /\ ret'.err = NoErr)
      => LET q == ret'.arg
             old == BucketOf(heap, EquivalenceClassMap, q)
             new == BucketOf(heap', EquivalenceClassMap', q)
         IN  /\ SameEdges(heap', ret'.state, q)
             /\ ret'.state \in Members(new)
             /\ IsPrefix(old, new)
             /\ \A k \in DOMAIN EquivalenceClassMap :
                  /\ k \in DOMAIN EquivalenceClassMap'
                  /\ IsPrefix(EquivalenceClassMap[k], EquivalenceClassMap'[k])
             /\ (\A m \in Members(old) : ~SameEdges(heap, m, q))
                  => (ret'.state = q /\ new = Append(old, q)) ]_vars

\* C2 witness: q was returned for itself although its bucket already held a
\* state with other MachineEdges; both are listed in that bucket.
C2_Witness ==
  /\ ret.op = "GetEquivalenceClass" /\ ret.err = NoErr
  /\ ret.state = ret.arg
  /\ LET bucket == BucketOf(heap, EquivalenceClassMap, ret.arg)
     IN  /\ Len(bucket) >= 2
         /\ bucket[Len(bucket)] = ret.arg
         /\ \A i \in 1..(Len(bucket) - 1) : ~SameEdges(heap, bucket[i], ret.arg)

\* Distinct objects of S carry distinct ids; every state of S hashes.
DistinctIds(h, S) == \A p, q \in S : p # q => GetId(h, p) # GetId(h, q)

HashingWorks(h, S) == \A s \in S : IsomorphismHash(h, s).err = NoErr

\* Two states of S with different ids have equal MachineEdges.
NonMinimal(h, S) ==
  \E p, q \in S : GetId(h, p) # GetId(h, q) /\ SameEdges(h, p, q)

\* C3: on a graph whose reachable objects carry distinct ids and all hash,
\* Initialize(start) returns ErrNonMinimalMachine when two reachable states
\* with different ids have equal MachineEdges, and no error otherwise.
C3_InitializeDetectsNonMinimal ==
  [][ ( /\ Called("Initialize") /\ ret'.arg # Nil
        /\ DistinctIds(heap, Reachable(heap, ret'.arg))
        /\ HashingWorks(heap, Reachable(heap, ret'.arg)) )
      => ret'.err = IF NonMinimal(heap, Reachable(heap, ret'.arg))
                      THEN "ErrNonMinimalMachine"
                      ELSE NoErr ]_vars

\* C3 witness: Initialize rejected a graph of three states with distinct ids
\* in which only the two destinations of the start state are equal.
C3_Witness ==
  /\ ret.op = "Initialize" /\ ret.err = "ErrNonMinimalMachine"
  /\ ret.arg # Nil
  /\ Cardinality(Reachable(heap, ret.arg)) = 3
  /\ DistinctIds(heap, Reachable(heap, ret.arg))
  /\ \A q \in Reachable(heap, ret.arg) \ {ret.arg} : ~SameEdges(heap, q, ret.arg)


\* No bucket lists two states whose current MachineEdges are equal.
BucketInvariant(h, map) ==
  \A k \in DOMAIN map :
    \A i, j \in 1..Len(map[k]) : i # j => ~SameEdges(h, map[k][i], map[k][j])

\* C4 as claimed: the bucket invariant holds in every reachable state, also
\* after AddEdge, RemoveEdge and SetId on states that are already listed.
C4_BucketInvariantAlways == BucketInvariant(heap, EquivalenceClassMap)

\* C4 as amended: every call that leaves the MachineEdges of all listed
\* states as they were (every register call, and every builder call that
\* does not rewire or renumber under a listed state) keeps the bucket
\* invariant; only a change of a listed state's MachineEdges can break it.
C4_BucketInvariantKept ==
  [][ ( /\ BucketInvariant(heap, EquivalenceClassMap)
        /\ \A r \in Listed(EquivalenceClassMap) :
             MachineEdges(heap', r) = MachineEdges(heap, r) )
      => BucketInvariant(heap', EquivalenceClassMap') ]_vars

\* C4 witness: after a successful AddEdge a bucket still lists two states,
\* and the invariant holds.
C4_Witness ==
  /\ ret.op = "AddEdge" /\ ret.err = NoErr
  /\ \E k \in DOMAIN EquivalenceClassMap : Len(EquivalenceClassMap[k]) >= 2
  /\ BucketInvariant(heap, EquivalenceClassMap)

\* C5: equivalence looks at MachineEdges only.  When the bucket of the query
\* lists a state with the query's MachineEdges, GetEquivalenceClass returns
\* such a listed state and changes nothing, whatever the terminal flags and
\* annotations of the two are; and Initialize rejects every graph (distinct
\* ids, working hashing) with two structurally equal states of different
\* ids, whatever their terminal flags and annotations.
C5_FlagsTakeNoPart ==
  [][ /\ ( /\ Called("GetEquivalenceClass") /\ ret'.arg # Nil
           /\ \E m \in Members(BucketOf(heap, EquivalenceClassMap, ret'.arg)) :
                SameEdges(heap, m, ret'.arg) )
         => ( /\ ret'.err = NoErr
              /\ ret'.state \in Members(BucketOf(heap, EquivalenceClassMap, ret'.arg))
              /\ SameEdges(heap, ret'.state, ret'.arg)
              /\ EquivalenceClassMap' = EquivalenceClassMap )
      /\ ( /\ Called("Initialize") /\ ret'.arg # Nil
           /\ DistinctIds(heap, Reachable(heap, ret'.arg))
           /\ HashingWorks(heap, Reachable(heap, ret'.arg))
           /\ NonMinimal(heap, Reachable(heap, ret'.arg)) )
         => ret'.err = "ErrNonMinimalMachine" ]_vars

\* C5 witness: Initialize rejected a graph in which every two structurally
\* equal states differ in the terminal flag.
C5_Witness ==
  /\ ret.op = "Initialize" /\ ret.err = "ErrNonMinimalMachine"
  /\ ret.arg # Nil
  /\ \A p, q \in Reachable(heap, ret.arg) :
       (p # q /\ SameEdges(heap, p, q))
         => heap[p].Terminal # heap[q].Terminal

\* The errors Initialize(start) can return, over every order in which
\* FollowAllEdges may list the destinations of each state it visits.
InitializeErrors(h, start) == {run.err : run \in InitializeRuns(h, start)}

\* C6 as claimed: on every graph the error Initialize(start) returns is the
\* same for every order of the destinations.
C6_OrderIndependentAlways ==
  \A start \in Refs(heap) : Cardinality(InitializeErrors(heap, start)) = 1

\* C6 as amended: the error is the same for every order on every graph whose
\* reachable State objects carry pairwise distinct ids.
C6_OrderIndependentDistinctIds ==
  \A start \in Refs(heap) :
    DistinctIds(heap, Reachable(heap, start))
      => Cardinality(InitializeErrors(heap, start)) = 1

\* C6 witness: Initialize has walked a graph with distinct ids whose start
\* state has two destinations, so that the walk had more than one order.
C6_Witness ==
  /\ ret.op = "Initialize" /\ ret.arg # Nil
  /\ DistinctIds(heap, Reachable(heap, ret.arg))
  /\ Cardinality(FollowAllEdges(heap, ret.arg) \ {ret.arg}) = 2
  /\ Cardinality(InitializeRuns(heap, ret.arg)) >= 2

\* No element of a sequence occurs in it twice.
NoDuplicates(seq) == \A i, j \in 1..Len(seq) : seq[i] = seq[j] => i = j

\* The ids of a set of State objects.
IdsOf(h, S) == {GetId(h, s) : s \in S}

\* C7: on every graph, cyclic ones included, every run of Initialize(start)
\* ends, pushes no State twice, pops only what it pushed, and makes at most
\* as many loop iterations as there are distinct reachable ids.
C7_WalkBounded ==
  \A start \in Refs(heap) :
    \A run \in InitializeRuns(heap, start) :
      /\ NoDuplicates(run.pushed)
      /\ NoDuplicates(run.visited)
      /\ {run.visited[i] : i \in 1..Len(run.visited)}
           \subseteq {run.pushed[i] : i \in 1..Len(run.pushed)}
      /\ Len(run.visited) <= Cardinality(IdsOf(heap, Reachable(heap, start)))

\* C7 witness: Initialize returned nil on a graph with a self-loop and a
\* two-state cycle A -> B, B -> A.
C7_Witness ==
  /\ ret.op = "Initialize" /\ ret.arg # Nil /\ ret.err = NoErr
  /\ \E p, q \in Reachable(heap, ret.arg) :
       /\ p # q
       /\ q \in FollowAllEdges(heap, p)
       /\ p \in FollowAllEdges(heap, q)
       /\ q \in FollowAllEdges(heap, q)

\* A listed state sits in the bucket of its own current hash.
InOwnBucket(h, map, s) ==
  LET hashed == IsomorphismHash(h, s)
  IN  /\ hashed.err = NoErr
      /\ hashed.hash \in DOMAIN map
      /\ \E i \in 1..Len(map[hashed.hash]) : map[hashed.hash][i] = s

\* No state is listed twice, in one bucket or in two.
ListedOnce(map) ==
  \A k1, k2 \in DOMAIN map : \A i \in 1..Len(map[k1]), j \in 1..Len(map[k2]) :
    map[k1][i] = map[k2][j] => (k1 = k2 /\ i = j)

\* C8: Initialize(nil) returns ErrRegisterNilState and leaves the register
\* empty; after Initialize(start) the register lists only states the walk
\* from start registered: each is reachable from start, is listed once, and
\* sits in the bucket of its current hash.
C8_InitializeDiscards ==
  [][Called("Initialize") =>
       IF ret'.arg = Nil
         THEN ret'.err = "ErrRegisterNilState" /\ EquivalenceClassMap' = <<>>
         ELSE /\ Listed(EquivalenceClassMap')
                   \subseteq Reachable(heap, ret'.arg)
              /\ ListedOnce(EquivalenceClassMap')
              /\ \A s \in Listed(EquivalenceClassMap') :
                   InOwnBucket(heap, EquivalenceClassMap', s)]_vars

\* C8 witness: Initialize returned nil and lists nothing but its own walk,
\* while a State outside the walk exists that the register could have listed.
C8_Witness ==
  /\ ret.op = "Initialize" /\ ret.arg # Nil /\ ret.err = NoErr
  /\ Listed(EquivalenceClassMap) = Reachable(heap, ret.arg)
  /\ \E s \in Refs(heap) :
       /\ s \notin Reachable(heap, ret.arg)
       /\ IsomorphismHash(heap, s).err = NoErr

\* The errors IsomorphismHash can return.
HashErrors == {"ErrNilEncoder", "ErrNilHashFunc"}

\* C9: GetEquivalenceClass(nil) returns ErrRegisterNilState;
\* GetEquivalenceClass of a state whose IsomorphismHash fails returns that
\* error; both return no state and leave the buckets as they were.
\* Initialize returns the hashing error of its start state, and returns a
\* hashing error only if a reachable state has it.
C9_ErrorsPropagate ==
  [][/\ (Called("GetEquivalenceClass") /\ ret'.arg = Nil)
          => /\ ret'.err = "ErrRegisterNilState" /\ ret'.state = Nil
             /\ EquivalenceClassMap' = EquivalenceClassMap
     /\ (/\ Called("GetEquivalenceClass") /\ ret'.arg # Nil
         /\ IsomorphismHash(heap, ret'.arg).err # NoErr)
          => /\ ret'.err = IsomorphismHash(heap, ret'.arg).err
             /\ ret'.state = Nil
             /\ EquivalenceClassMap' = EquivalenceClassMap
     /\ (/\ Called("Initialize") /\ ret'.arg # Nil
         /\ IsomorphismHash(heap, ret'.arg).err # NoErr)
          => ret'.err = IsomorphismHash(heap, ret'.arg).err
     /\ (Called("Initialize") /\ ret'.err \in HashErrors)
          => \E s \in Reachable(heap, ret'.arg) :
               IsomorphismHash(heap, s).err = ret'.err]_vars

\* C9 witness: GetEquivalenceClass has returned the hashing error of a state
\* made without a hash function.
C9_Witness ==
  /\ ret.op = "GetEquivalenceClass" /\ ret.arg # Nil
  /\ ret.err = "ErrNilHashFunc" /\ ret.state = Nil
  /\ heap[ret.arg].Encoding /\ heap[ret.arg].HashFunc = Nil

\* The ids the factory has handed out are below its counter, and differ.
IssuedBelowCounter == \A s \in Refs(heap) : GetId(heap, s) < IdCounter

IssuedDistinct == DistinctIds(heap, Refs(heap))

\* C10 as claimed: over NewState, CloneState, SetIdCounter and
\* SetDefaultStateType the counter never decreases and every two states the
\* factory returned have different ids.
C10_NeverReused ==
  [][IdCounter' >= IdCounter /\ IssuedDistinct']_vars

\* C10 as amended: only SetIdCounter decreases the counter, and while no call
\* decreases it every id handed out is below the counter and no id is handed
\* out twice.
C10_NeverReusedUnlessLowered ==
  [][/\ IdCounter' < IdCounter => Called("SetIdCounter")
     /\ (IdCounter' >= IdCounter /\ IssuedBelowCounter /\ IssuedDistinct)
          => (IssuedBelowCounter' /\ IssuedDistinct')]_vars

\* C10 witness: CloneState has handed out an id after SetIdCounter raised the
\* counter past the next id.
C10_Witness ==
  /\ ret.op = "CloneState" /\ ret.err = NoErr
  /\ Len(heap) >= 2
  /\ IssuedBelowCounter /\ IssuedDistinct
  /\ GetId(heap, ret.state) > GetId(heap, ret.arg) + 1

\* The factory has made every State so far and handed out 0, 1, 2, ... in
\* call order.
IssuedInCallOrder ==
  /\ IdCounter = Len(heap)
  /\ \A s \in Refs(heap) : GetId(heap, s) = s - 1

\* NewState or CloneState has returned a state.
Produced ==
  (Called("NewState") \/ Called("CloneState")) /\ ret'.err = NoErr

\* C11: a successful NewState or CloneState returns a state whose id is the
\* counter before the call and leaves the counter one higher; SetIdCounter(n)
\* leaves the counter at n; a factory that has handed out 0, 1, ... goes on
\* doing so.
C11_IdIsCounterBeforeCall ==
  [][/\ Produced => /\ GetId(heap', ret'.state) = IdCounter
                    /\ IdCounter' = IdCounter + 1
     /\ Called("SetIdCounter") => IdCounter' = ret'.arg
     /\ (Produced /\ IssuedInCallOrder) => IssuedInCallOrder']_vars

\* C11 witness: three calls on a fresh factory, the last one CloneState, have
\* returned ids 0, 1, 2.
C11_Witness ==
  /\ ret.op = "CloneState" /\ ret.err = NoErr
  /\ Len(heap) = 3
  /\ IssuedInCallOrder

\* Every State object of h is in h2 as it was in h.
Untouched(h, h2) ==
  /\ Len(h2) >= Len(h)
  /\ \A t \in Refs(h) : h2[t] = h[t]

\* C12: CloneState(original) returns a new State object with original's edge
\* map (the same destination objects) and annotation set and the counter's
\* value as its id, and leaves original and every other State as it was.
C12_CloneStateCopies ==
  [][(Called("CloneState") /\ ret'.err = NoErr) =>
       /\ ret'.state \in Refs(heap') \ Refs(heap)
       /\ heap'[ret'.state].Edges = heap[ret'.arg].Edges
       /\ heap'[ret'.state].Annotations = heap[ret'.arg].Annotations
       /\ heap'[ret'.state].Id = IdCounter
       /\ Untouched(heap, heap')]_vars

\* C12 witness: CloneState has cloned a terminal state that has an edge and
\* an annotation.
C12_Witness ==
  /\ ret.op = "CloneState" /\ ret.err = NoErr
  /\ heap[ret.arg].Terminal
  /\ heap[ret.arg].Edges # <<>>
  /\ heap[ret.arg].Annotations # {}
  /\ heap[ret.state].Edges = heap[ret.arg].Edges
  /\ heap[ret.state].Annotations = heap[ret.arg].Annotations

\* The State methods that change a State.
Mutators == {"AddEdge", "RemoveEdge", "AddAnnotation", "RemoveAnnotation", "SetId"}

\* At most one State object of h differs in h2, and none was added.
AtMostOneChanged(h, h2) ==
  /\ Len(h2) = Len(h)
  /\ \A p, q \in Refs(h) : p # q => (h2[p] = h[p] \/ h2[q] = h[q])

\* Every label a State keeps still leads to the same destination object.
SameDestinations(h, h2) ==
  \A p \in Refs(h) : \A l \in DOMAIN h[p].Edges \cap DOMAIN h2[p].Edges :
    h2[p].Edges[l] = h[p].Edges[l]

\* C13: c = s.Clone() is a new State with the id, edge map and annotation set
\* of s; every later AddEdge, RemoveEdge, AddAnnotation, RemoveAnnotation or
\* SetId changes the State it is applied to and no other, s and c included,
\* and the labels a State keeps lead to the same destination objects.
C13_CloneIsIndependent ==
  [][/\ Called("Clone") =>
          /\ ret'.state \in Refs(heap') \ Refs(heap)
          /\ heap'[ret'.state].Id = heap[ret'.arg].Id
          /\ heap'[ret'.state].Edges = heap[ret'.arg].Edges
          /\ heap'[ret'.state].Annotations = heap[ret'.arg].Annotations
          /\ Untouched(heap, heap')
     /\ ret'.op \in Mutators =>
          /\ AtMostOneChanged(heap, heap')
          /\ SameDestinations(heap, heap')]_vars

\* C13 witness: of a State and its clone, which share the id and a non-empty
\* annotation set, one has been given an edge the other does not have.
C13_Witness ==
  /\ ret.op = "AddEdge" /\ ret.err = NoErr
  /\ \E s, c \in Refs(heap) :
       /\ s < c
       /\ heap[s].Id = heap[c].Id
       /\ heap[s].Annotations = heap[c].Annotations
       /\ heap[s].Annotations # {}
       /\ heap[s].Edges = <<>>
       /\ heap[c].Edges # <<>>

\* C14: Clone() of a LazyDfaStatefulState returns a clone with the
\* annotation set of the original, and AddAnnotation and RemoveAnnotation
\* work on the clone as on a constructed state: AddAnnotation succeeds and
\* the annotation is then present, RemoveAnnotation fails only with
\* ErrAnnotationInvalid.
C14_StatefulCloneKeepsAnnotations ==
  [][/\ Called("Clone") =>
          heap'[ret'.state].Annotations = heap[ret'.arg].Annotations
     /\ Called("AddAnnotation") => ret'.err = NoErr
     /\ Called("RemoveAnnotation")
          => ret'.err \in {NoErr, "ErrAnnotationInvalid"}]_vars

\* Two State objects hold equal edge maps (same labels, same destination
\* objects) and the same capabilities, as a State and its clone do until
\* AddEdge or RemoveEdge changes one of them.
Twins(h, p, q) ==
  /\ h[p].Edges = h[q].Edges
  /\ h[p].Encoding = h[q].Encoding
  /\ h[p].HashFunc = h[q].HashFunc

\* C15: right after c = s.Clone() or CloneState(s) the two have the same
\* IsomorphismHash, and two states whose hashes agree because they hold the
\* same edges keep agreeing over every call that leaves the edge maps of both
\* alone: SetId on either or on a destination, annotation and terminal
\* changes, edge changes of other states.
C15_CloneHashStaysEqual ==
  [][/\ (Called("Clone") \/ Called("CloneState")) =>
          IsomorphismHash(heap', ret'.state) = IsomorphismHash(heap', ret'.arg)
     /\ \A p, q \in Refs(heap) :
          (/\ Twins(heap, p, q)
           /\ IsomorphismHash(heap, p) = IsomorphismHash(heap, q)
           /\ heap'[p].Edges = heap[p].Edges
           /\ heap'[q].Edges = heap[q].Edges)
            => IsomorphismHash(heap', p) = IsomorphismHash(heap', q)]_vars

\* C15 witness: a state with a self-loop and its clone, after the clone got
\* another id and an annotation, have the same hash under the widest hash.
C15_Witness ==
  /\ ret.op = "SetId"
  /\ \E s, c \in Refs(heap), l \in Labels :
       /\ s < c
       /\ Twins(heap, s, c)
       /\ l \in DOMAIN heap[s].Edges /\ heap[s].Edges[l] = s
       /\ heap[s].Id # heap[c].Id
       /\ heap[s].Annotations # heap[c].Annotations
       /\ heap[s].HashFunc = 65521
       /\ IsomorphismHash(heap, s).err = NoErr
       /\ IsomorphismHash(heap, s) = IsomorphismHash(heap, c)

\* The hash a fresh instance of the hash function gives the canonical
\* encoding of an edge map, as the test's hashFunc computes it.
ExpectedHash(machineEdges, hashFunc) == Sum32(Encode(machineEdges), hashFunc)

\* C16: a successful IsomorphismHash of s returns the hash a fresh instance
\* gives the canonical encoding of MachineEdges(s), changes no State, and
\* every State with the same encoder and hash function and equal
\* MachineEdges has the same IsomorphismHash, whatever its id, terminal flag
\* and annotations and however its edges came about.
C16_HashOfMachineEdgesAlone ==
  [][Called("IsomorphismHash") =>
       /\ heap' = heap
       /\ ret'.err = NoErr =>
            ret'.hash = ExpectedHash(MachineEdges(heap, ret'.arg),
                                     heap[ret'.arg].HashFunc)
       /\ \A q \in Refs(heap) :
            (/\ heap[q].Encoding = heap[ret'.arg].Encoding
             /\ heap[q].HashFunc = heap[ret'.arg].HashFunc
             /\ MachineEdges(heap, q) = MachineEdges(heap, ret'.arg))
              => /\ IsomorphismHash(heap, q).hash = ret'.hash
                 /\ IsomorphismHash(heap, q).err = ret'.err]_vars

\* C16 witness: IsomorphismHash has hashed a state with an edge while another
\* state with equal MachineEdges but another id and terminal flag exists.
C16_Witness ==
  /\ ret.op = "IsomorphismHash" /\ ret.err = NoErr
  /\ heap[ret.arg].HashFunc = 65521
  /\ \E q \in Refs(heap) :
       /\ q # ret.arg
       /\ MachineEdges(heap, q) = MachineEdges(heap, ret.arg)
       /\ MachineEdges(heap, q) # <<>>
       /\ heap[q].Id # heap[ret.arg].Id
       /\ heap[q].Terminal # heap[ret.arg].Terminal

\* C17 as claimed: over every call, the IsomorphismHash of a state whose
\* hashing works changes if and only if its MachineEdges changes.
C17_HashChangesIffEdgesChange ==
  [][\A s \in Refs(heap) :
       IsomorphismHash(heap, s).err = NoErr =>
         ((IsomorphismHash(heap', s) # IsomorphismHash(heap, s))
            <=> (MachineEdges(heap', s) # MachineEdges(heap, s)))]_vars

\* C17 as amended: over every call, the IsomorphismHash of a state changes
\* only if its MachineEdges changes, and a change of MachineEdges changes the
\* canonical encoding that is hashed (so the hash changes unless the hash
\* function collides on the two encodings).
C17_HashChangesOnlyIfEdgesChange ==
  [][\A s \in Refs(heap) :
       /\ (IsomorphismHash(heap', s) # IsomorphismHash(heap, s))
            => (MachineEdges(heap', s) # MachineEdges(heap, s))
       /\ (MachineEdges(heap', s) # MachineEdges(heap, s))
            => (Encode(MachineEdges(heap', s)) # Encode(MachineEdges(heap, s)))
     ]_vars

\* C17 witness: an edge has been added to a state, whose hash under the
\* widest hash function now differs from the hash of a state without edges,
\* while a state without edges exists.
C17_Witness ==
  /\ ret.op = "AddEdge" /\ ret.err = NoErr
  /\ \E s, t \in Refs(heap) :
       /\ heap[s].HashFunc = 65521
       /\ heap[s].Edges # <<>>
       /\ heap[t].Edges = <<>>
       /\ IsomorphismHash(heap, s).err = NoErr
       /\ IsomorphismHash(heap, s) # IsomorphismHash(heap, t)

\* C18: IsomorphismHash of a LazyDfaAnnotatedState without an encoder returns
\* (0, ErrNilEncoder), also when the hash function is missing too; with an
\* encoder and without a hash function it returns (0, ErrNilHashFunc); the
\* call changes no State, nor the factory or the register.
C18_NilCapabilityErrors ==
  [][Called("IsomorphismHash") =>
       /\ ~heap[ret'.arg].Encoding
            => (ret'.err = "ErrNilEncoder" /\ ret'.hash = 0)
       /\ (heap[ret'.arg].Encoding /\ heap[ret'.arg].HashFunc = Nil)
            => (ret'.err = "ErrNilHashFunc" /\ ret'.hash = 0)
       /\ UNCHANGED <<heap, IdCounter, DefaultStateType, Encoding, HashFunc,
                      EquivalenceClassMap>>]_vars

\* C18 witness: IsomorphismHash has returned ErrNilEncoder for a state with an
\* edge that has neither an encoder nor a hash function.
C18_Witness ==
  /\ ret.op = "IsomorphismHash"
  /\ ret.err = "ErrNilEncoder" /\ ret.hash = 0
  /\ ~heap[ret.arg].Encoding /\ heap[ret.arg].HashFunc = Nil
  /\ heap[ret.arg].Edges # <<>>

\* C19: IsomorphismHash of a LazyDfaStatefulState without an encoder returns
\* ErrNilEncoder, and with an encoder but without a hash function returns
\* ErrNilHashFunc, as error values.
C19_StatefulNilCapabilityErrors ==
  [][Called("IsomorphismHash") =>
       /\ ~heap[ret'.arg].Encoding => ret'.err = "ErrNilEncoder"
       /\ (heap[ret'.arg].Encoding /\ heap[ret'.arg].HashFunc = Nil)
            => ret'.err = "ErrNilHashFunc"]_vars

\* In h2 the State s of h has exactly one more edge, from a label it did not
\* have to a State object of h, and every State is otherwise as in h.
OneEdgeAdded(h, h2, s) ==
  /\ Len(h2) = Len(h)
  /\ \A t \in Refs(h) \ {s} : h2[t] = h[t]
  /\ \E l \in Labels \ DOMAIN h[s].Edges, d \in Refs(h) :
       h2[s] = [h[s] EXCEPT !.Edges = EdgesWith(h[s].Edges, l, d)]

\* C20: AddEdge either fails with ErrEdgeAlreadyUsed and changes nothing, or
\* succeeds and adds exactly one label that was unmapped, to one State; a
\* label that is mapped is never given another destination, and no other
\* State, the destination included, changes in id, edges, flag or annotations.
C20_AddEdgeRefusesUsedLabel ==
  [][Called("AddEdge") =>
       \/ ret'.err = "ErrEdgeAlreadyUsed" /\ heap' = heap
       \/ ret'.err = NoErr /\ \E s \in Refs(heap) : OneEdgeAdded(heap, heap', s)
    ]_vars

\* C20 witness: AddEdge has failed with ErrEdgeAlreadyUsed on a state whose
\* label leads to another State, which carries an annotation.
C20_Witness ==
  /\ ret.op = "AddEdge" /\ ret.err = "ErrEdgeAlreadyUsed"
  /\ \E s \in Refs(heap), l \in Labels :
       /\ l \in DOMAIN heap[s].Edges
       /\ heap[s].Edges[l] # s
       /\ heap[heap[s].Edges[l]].Annotations # {}

\* C21: for every state s, label l and State d (or nil), RemoveEdge(l, d) on
\* s fails with ErrEdgeNotPresent and changes nothing when l is unmapped or
\* mapped to another object than d, a same-id object included; otherwise it
\* succeeds, s loses the mapping of l and keeps every other mapping, and
\* nothing else changes.
C21_RemoveEdgeByObject ==
  \A s \in Refs(heap), l \in Labels, d \in Refs(heap) \cup {Nil} :
    LET done == RemoveEdgeOn(heap, s, l, d)
    IN  IF l \notin DOMAIN heap[s].Edges \/ heap[s].Edges[l] # d
          THEN done.err = "ErrEdgeNotPresent" /\ done.heap = heap
          ELSE /\ done.err = NoErr
               /\ DOMAIN done.heap[s].Edges = DOMAIN heap[s].Edges \ {l}
               /\ \A k \in DOMAIN done.heap[s].Edges :
                    done.heap[s].Edges[k] = heap[s].Edges[k]
               /\ done.heap = [heap EXCEPT ![s].Edges = done.heap[s].Edges]

\* C21 witness: RemoveEdge has failed with ErrEdgeNotPresent on a state that
\* has an edge to a State of which another object with the same id exists.
C21_Witness ==
  /\ ret.op = "RemoveEdge" /\ ret.err = "ErrEdgeNotPresent"
  /\ \E s, c \in Refs(heap), l \in Labels :
       /\ l \in DOMAIN heap[s].Edges
       /\ heap[s].Edges[l] # c
       /\ GetId(heap, heap[s].Edges[l]) = GetId(heap, c)

\* The destination objects in the edge map of s.
Destinations(h, s) == {h[s].Edges[l] : l \in DOMAIN h[s].Edges}

\* C22: every slice FollowAllEdges(s) may return holds each destination
\* object of s's edge map once and nothing else, so it is as long as the
\* number of distinct destination objects, however many labels lead to one
\* and whatever ids they carry.
C22_FollowAllEdgesDistinct ==
  \A s \in Refs(heap) : \A slice \in FollowAllEdgesSlices(heap, s) :
    /\ NoDuplicates(slice)
    /\ {slice[i] : i \in 1..Len(slice)} = Destinations(heap, s)
    /\ Len(slice) = Cardinality(Destinations(heap, s))

\* C22 witness: FollowAllEdges has returned one element for a state whose
\* two labels lead to the same State.
C22_Witness ==
  /\ ret.op = "FollowAllEdges"
  /\ Len(ret.slice) = 1
  /\ DOMAIN heap[ret.arg].Edges = Labels
  /\ ret.slice[1] # ret.arg

\* C23: MachineEdges(s) has the labels of s's edge map and gives each label
\* the current id of its destination object, and changes nothing; a
\* successful AddEdge adds one label to the MachineEdges of one state, a
\* successful RemoveEdge takes one away, and after SetId every state reports
\* the id its destinations have now.
C23_MachineEdgesCurrentIds ==
  [][/\ Called("MachineEdges") =>
          /\ heap' = heap
          /\ DOMAIN ret'.edges = DOMAIN heap[ret'.arg].Edges
          /\ \A l \in DOMAIN ret'.edges :
               ret'.edges[l] = heap[heap[ret'.arg].Edges[l]].Id
     /\ (Called("AddEdge") /\ ret'.err = NoErr) =>
          \E s \in Refs(heap), l \in Labels :
            /\ l \notin DOMAIN MachineEdges(heap, s)
            /\ DOMAIN MachineEdges(heap', s)
                 = DOMAIN MachineEdges(heap, s) \cup {l}
            /\ \A t \in Refs(heap) \ {s} :
                 MachineEdges(heap', t) = MachineEdges(heap, t)
     /\ (Called("RemoveEdge") /\ ret'.err = NoErr) =>
          \E s \in Refs(heap), l \in Labels :
            /\ l \in DOMAIN MachineEdges(heap, s)
            /\ DOMAIN MachineEdges(heap', s)
                 = DOMAIN MachineEdges(heap, s) \ {l}
            /\ \A t \in Refs(heap) \ {s} :
                 MachineEdges(heap', t) = MachineEdges(heap, t)
     /\ Called("SetId") =>
          \A s \in Refs(heap') : \A l \in DOMAIN heap'[s].Edges :
            /\ l \in DOMAIN MachineEdges(heap', s)
            /\ MachineEdges(heap', s)[l] = heap'[heap'[s].Edges[l]].Id]_vars

\* C23 witness: MachineEdges of another state has reported, for a label that
\* leads to the first State the factory made, an id other than the 0 the
\* factory gave it: SetId has renumbered the destination.
C23_Witness ==
  /\ ret.op = "MachineEdges" /\ ret.arg # 1
  /\ \E l \in DOMAIN ret.edges :
       /\ heap[ret.arg].Edges[l] = 1
       /\ ret.edges[l] # 0
       /\ ret.edges[l] = heap[1].Id

\* C24: the annotations of a LazyDfaAnnotatedState are a set.  For every
\* state s and value x: AddAnnotation(x) returns no error and leaves the
\* members of s plus x, a second AddAnnotation(x) changes nothing more;
\* RemoveAnnotation(x) returns ErrAnnotationInvalid and changes nothing when
\* x is not a member (never added, or just removed), and otherwise returns no
\* error and leaves the members of s without x; neither call touches another
\* state; every slice GetAnnotations may return holds each member once.
C24_AnnotationsAreASet ==
  \A s \in Refs(heap) :
    /\ \A x \in AnnotationValues :
         LET members == heap[s].Annotations
             once    == AddAnnotationOn(heap, s, x)
             twice   == AddAnnotationOn(once.heap, s, x)
             removed == RemoveAnnotationOn(heap, s, x)
             again   == RemoveAnnotationOn(removed.heap, s, x)
         IN  /\ once.err = NoErr /\ twice.err = NoErr
             /\ once.heap[s].Annotations = members \cup {x}
             /\ twice.heap = once.heap
             /\ \A t \in Refs(heap) \ {s} :
                  once.heap[t] = heap[t] /\ removed.heap[t] = heap[t]
             /\ x \notin members =>
                  removed.err = "ErrAnnotationInvalid" /\ removed.heap = heap
             /\ x \in members =>
                  /\ removed.err = NoErr
                  /\ removed.heap[s].Annotations = members \ {x}
             /\ again.err = "ErrAnnotationInvalid" /\ again.heap = removed.heap
    /\ \A slice \in GetAnnotations(heap, s) :
         NoDuplicates(slice) /\ Members(slice) = heap[s].Annotations

\* C24 witness: RemoveAnnotation has succeeded on a state that held both
\* values and now holds the other one only.
C24_Witness ==
  /\ ret.op = "RemoveAnnotation" /\ ret.err = NoErr
  /\ Len(heap) = 1
  /\ heap[1].Annotations = {"y"}

\* C25: the default state type of the factory is always a supported variant.
\* The constructor returns ErrInvalidStateType and no factory for an
\* unsupported variant; a SetDefaultStateType that returns
\* ErrInvalidStateType leaves the default type and the id counter as they
\* were, and one that succeeds leaves the counter alone; NewState never
\* returns ErrInvalidStateType: it returns a State and adds one to the
\* counter.
C25_DefaultStateTypeSupported ==
  /\ [](/\ DefaultStateType = LAZYDFAANNOTATED
        /\ \A defaultStateType \in StateTypes \ {LAZYDFAANNOTATED} :
             LET made == NewEncodeHashStateFactory(Encoding, HashFunc,
                                                   defaultStateType)
             IN  made.err = "ErrInvalidStateType" /\ made.factory = Nil)
  /\ [][ /\ Called("SetDefaultStateType") =>
               (/\ IdCounter' = IdCounter
                /\ ret'.err \in {NoErr, "ErrInvalidStateType"}
                /\ (ret'.err = "ErrInvalidStateType" =>
                      DefaultStateType' = DefaultStateType)
                /\ DefaultStateType' = LAZYDFAANNOTATED)
         /\ Called("NewState") =>
               (/\ ret'.err = NoErr
                /\ ret'.state # Nil
                /\ IdCounter' = IdCounter + 1) ]_vars

\* C25 witness: after States were made, SetDefaultStateType has rejected a
\* variant and the default type is still the supported one.
C25_Witness ==
  /\ ret.op = "SetDefaultStateType" /\ ret.err = "ErrInvalidStateType"
  /\ DefaultStateType = LAZYDFAANNOTATED
  /\ Len(heap) >= 1 /\ IdCounter >= 1

\* C26: Reset returns no error and leaves the register empty, whatever it
\* listed: in the state after Reset, GetEquivalenceClass(q) would return q
\* with no error for every State q that hashes, and when the call that
\* follows Reset is GetEquivalenceClass(q) for such a q, it returns q.
C26_ResetEmpties ==
  [][ /\ Called("Reset") =>
           (/\ ret'.err = NoErr
            /\ Listed(EquivalenceClassMap') = {}
            /\ \A q \in Refs(heap') :
                 IsomorphismHash(heap', q).err = NoErr =>
                   LET got == GetEquivalenceClassOn(heap', EquivalenceClassMap', q)
                   IN  got.err = NoErr /\ got.state = q)
      /\ (/\ ret.op = "Reset"
          /\ Called("GetEquivalenceClass")
          /\ ret'.arg # Nil
          /\ IsomorphismHash(heap, ret'.arg).err = NoErr) =>
           (ret'.err = NoErr /\ ret'.state = ret'.arg) ]_vars

\* C26 witness: Reset has returned while two States with equal MachineEdges
\* exist that hash, so that a register still listing one of them would
\* answer a query for the other with it.
C26_Witness ==
  /\ ret.op = "Reset" /\ ret.err = NoErr
  /\ Listed(EquivalenceClassMap) = {}
  /\ \E p, q \in Refs(heap) :
       /\ p # q
       /\ SameEdges(heap, p, q)
       /\ DOMAIN heap[p].Edges # {}
       /\ IsomorphismHash(heap, p).err = NoErr
       /\ IsomorphismHash(heap, q).err = NoErr

\* C27: a LazyDfaAnnotatedState and a LazyDfaStatefulState that go through
\* the same AddEdge, RemoveEdge, SetId and SetTerminal calls return the same
\* error from every call, and after every call GetId, IsTerminal,
\* MachineEdges, FollowEdge for every label and FollowAllEdges (as a set)
\* agree, a destination of the one being the counterpart of the destination
\* of the other.
C27_SameEdgeKernel ==
  /\ ret.op \in {"SetId", "SetTerminal", "AddEdge", "RemoveEdge"} =>
       ret.err = ret.statefulErr
  /\ \A k \in Pairs(heap) :
       LET a == Annotated(k)
           b == Stateful(k)
       IN  /\ GetId(heap, a) = StatefulGetId(heap, b)
           /\ IsTerminal(heap, a) = StatefulIsTerminal(heap, b)
           /\ MachineEdges(heap, a) = StatefulMachineEdges(heap, b)
           /\ \A l \in Labels :
                LET fa == FollowEdge(heap, a, l)
                    fb == StatefulFollowEdge(heap, b, l)
                IN  /\ Len(fa) = Len(fb)
                    /\ \A i \in 1..Len(fa) :
                         fa[i] = Annotated(PairOf(fa[i])) /\
                         fb[i] = Stateful(PairOf(fa[i]))
           /\ StatefulFollowAllEdges(heap, b)
                = {Stateful(PairOf(d)) : d \in FollowAllEdges(heap, a)}
           /\ \A d \in FollowAllEdges(heap, a) : d = Annotated(PairOf(d))

\* C27 witness: RemoveEdge was refused on both States of a pair that has
\* every label in use, while another pair carries another id.
C27_Witness ==
  /\ ret.op = "RemoveEdge"
  /\ ret.err = "ErrEdgeNotPresent" /\ ret.statefulErr = "ErrEdgeNotPresent"
  /\ DOMAIN heap[Annotated(ret.arg)].Edges # {}
  /\ DOMAIN heap[Stateful(ret.arg)].Edges = Labels
  /\ \E k \in Pairs(heap) : heap[Stateful(k)].Id # heap[Stateful(ret.arg)].Id

\* The ids of the States of a sequence, in its order.
IdSeq(h, seq) == [i \in 1..Len(seq) |-> GetId(h, seq[i])]

\* What every run of Initialize(start) does with ids: no id is pushed twice
\* and none is looked up twice; a run that returns nil has looked up
\* everything it pushed, only reachable States, and lists only States it has
\* looked up, so that of two reachable objects with one id at most one is
\* looked up and listed.
OncePerId(h, start, run) ==
  /\ NoDuplicates(IdSeq(h, run.pushed))
  /\ NoDuplicates(IdSeq(h, run.visited))
  /\ run.err = NoErr =>
       /\ Members(run.visited) = Members(run.pushed)
       /\ Members(run.visited) \subseteq Reachable(h, start)
       /\ Listed(run.map) \subseteq Members(run.visited)

\* C28 as stated: in every run of Initialize every id is pushed and looked
\* up at most once, and a run that returns nil has looked up every id of a
\* reachable State once.
C28_OncePerReachableId ==
  \A start \in Refs(heap) :
    \A run \in InitializeRuns(heap, start) :
      /\ OncePerId(heap, start, run)
      /\ run.err = NoErr =>
           IdsOf(heap, Members(run.visited)) = IdsOf(heap, Reachable(heap, start))

\* C28 as amended: in every run of Initialize every id is pushed and looked
\* up at most once; a run that returns nil on a graph whose reachable States
\* carry pairwise distinct ids has looked up every reachable State, hence
\* every reachable id, once; a reachable State whose id was seen on another
\* object is neither looked up nor listed.
C28_OncePerVisitedId ==
  \A start \in Refs(heap) :
    \A run \in InitializeRuns(heap, start) :
      /\ OncePerId(heap, start, run)
      /\ (run.err = NoErr /\ DistinctIds(heap, Reachable(heap, start))) =>
           Members(run.visited) = Reachable(heap, start)
      /\ \A t \in Members(run.visited) : \A s \in Reachable(heap, start) \ {t} :
           GetId(heap, s) = GetId(heap, t) =>
             s \notin Members(run.visited) /\ s \notin Listed(run.map)

\* C28 witness: Initialize returned nil although a reachable State carries
\* the id of another one; the register lists fewer States than are
\* reachable, and a reachable id is not listed at all.
C28_Witness ==
  /\ ret.op = "Initialize" /\ ret.arg # Nil /\ ret.err = NoErr
  /\ ~DistinctIds(heap, Reachable(heap, ret.arg))
  /\ Listed(EquivalenceClassMap) # Reachable(heap, ret.arg)
  /\ IdsOf(heap, Listed(EquivalenceClassMap))
       # IdsOf(heap, Reachable(heap, ret.arg))

\* C29: when Initialize(start) returns nil on a graph whose reachable States
\* carry pairwise distinct ids, the register lists exactly the States
\* reachable from start, each once and in the bucket of its IsomorphismHash,
\* and GetEquivalenceClass(s) would return s and leave the register as it is
\* for every reachable s; when the next call is such a GetEquivalenceClass,
\* it returns s and the register does not change.
C29_InitializeListsReachable ==
  [][ /\ (/\ Called("Initialize") /\ ret'.arg # Nil /\ ret'.err = NoErr
          /\ DistinctIds(heap, Reachable(heap, ret'.arg))) =>
           (/\ Listed(EquivalenceClassMap') = Reachable(heap, ret'.arg)
            /\ ListedOnce(EquivalenceClassMap')
            /\ \A s \in Reachable(heap, ret'.arg) :
                 /\ InOwnBucket(heap, EquivalenceClassMap', s)
                 /\ GetEquivalenceClassOn(heap, EquivalenceClassMap', s)
                      = Answer(s, NoErr, EquivalenceClassMap'))
      /\ (/\ ret.op = "Initialize" /\ ret.arg # Nil /\ ret.err = NoErr
          /\ DistinctIds(heap, Reachable(heap, ret.arg))
          /\ Called("GetEquivalenceClass")
          /\ ret'.arg \in Reachable(heap, ret.arg)) =>
           (/\ ret'.err = NoErr
            /\ ret'.state = ret'.arg
            /\ EquivalenceClassMap' = EquivalenceClassMap) ]_vars

\* C29 witness: Initialize returned nil on a graph with distinct ids and
\* lists its reachable States, two of them in one bucket (a hash collision).
C29_Witness ==
  /\ ret.op = "Initialize" /\ ret.arg # Nil /\ ret.err = NoErr
  /\ DistinctIds(heap, Reachable(heap, ret.arg))
  /\ Listed(EquivalenceClassMap) = Reachable(heap, ret.arg)
  /\ \E k \in DOMAIN EquivalenceClassMap : Len(EquivalenceClassMap[k]) >= 2

\* The register holds one representative per class: no two listed States
\* have equal MachineEdges, in one bucket or in two, no State is listed
\* twice, and every listed State sits in the bucket of its current hash.
OneRepresentativePerClass(h, map) ==
  /\ \A p, q \in Listed(map) : SameEdges(h, p, q) => p = q
  /\ ListedOnce(map)
  /\ \A s \in Listed(map) : InOwnBucket(h, map, s)

\* C30: the register keeps one representative per class as long as no
\* listed State's MachineEdges changes.  An empty register has the property;
\* every step that leaves the MachineEdges of the listed States alone,
\* GetEquivalenceClass included, preserves it; and on such a register a
\* successful GetEquivalenceClass(q) returns the listed State with the
\* MachineEdges of q, the one queried first, leaving the register as it is,
\* or, when there is none, returns q and lists q; repeating the call returns
\* the same State and changes nothing.
C30_OneRepresentativePerClass ==
  [][ /\ Called("Reset") =>
           OneRepresentativePerClass(heap', EquivalenceClassMap')
      /\ (/\ OneRepresentativePerClass(heap, EquivalenceClassMap)
          /\ ~Called("Reset") /\ ~Called("Initialize")
          /\ \A s \in Listed(EquivalenceClassMap) :
               MachineEdges(heap', s) = MachineEdges(heap, s)) =>
           OneRepresentativePerClass(heap', EquivalenceClassMap')
      /\ (/\ OneRepresentativePerClass(heap, EquivalenceClassMap)
          /\ Called("GetEquivalenceClass") /\ ret'.err = NoErr) =>
           LET q == ret'.arg
               class == {m \in Listed(EquivalenceClassMap) : SameEdges(heap, m, q)}
           IN  /\ class # {} =>
                    /\ ret'.state \in class
                    /\ EquivalenceClassMap' = EquivalenceClassMap
               /\ class = {} =>
                    /\ ret'.state = q
                    /\ Listed(EquivalenceClassMap')
                         = Listed(EquivalenceClassMap) \cup {q}
               /\ GetEquivalenceClassOn(heap', EquivalenceClassMap', q)
                    = Answer(ret'.state, NoErr, EquivalenceClassMap') ]_vars

\* C30 witness: GetEquivalenceClass(q) has returned another State than q,
\* the one registered before with the same non-empty MachineEdges; q is not
\* listed and the register holds one representative per class.
C30_Witness ==
  /\ ret.op = "GetEquivalenceClass" /\ ret.err = NoErr
  /\ ret.state # ret.arg
  /\ DOMAIN MachineEdges(heap, ret.arg) # {}
  /\ SameEdges(heap, ret.state, ret.arg)
  /\ ret.arg \notin Listed(EquivalenceClassMap)
  /\ OneRepresentativePerClass(heap, EquivalenceClassMap)

\* C31: s.Clone() and CloneState(s) of a LazyDfaAnnotatedState return a
\* State whose IsTerminal() is the IsTerminal() of s at the moment of the
\* call.
C31_CloneKeepsTerminal ==
  [][ ((Called("Clone") \/ Called("CloneState")) /\ ret'.err = NoErr) =>
        IsTerminal(heap', ret'.state) = IsTerminal(heap, ret'.arg) ]_vars

\* C32: the States share one hash function; whatever IsomorphismHash calls
\* have left in its accumulator, a call on a State q returns the error and
\* the hash it returns right after a call on any State p, and a successful
\* call returns the hash a fresh instance gives the encoding of q's own
\* MachineEdges.
C32_HashIndependentOfEarlierCalls ==
  \A p, q \in Refs(heap) :
    LET direct == IsomorphismHashOn(heap, q, accumulator)
        before == IsomorphismHashOn(heap, p, accumulator)
        after  == IsomorphismHashOn(heap, q, before.accumulator)
    IN  /\ after.err = direct.err
        /\ after.hash = direct.hash
        /\ direct.err = NoErr =>
             direct.hash = ExpectedHash(MachineEdges(heap, q), heap[q].HashFunc)

\* C32 witness: IsomorphismHash has returned the hash of a State with an
\* edge, which the shared accumulator now holds, while another State with
\* another hash exists, under the widest hash function.
C32_Witness ==
  /\ ret.op = "IsomorphismHash" /\ ret.err = NoErr
  /\ HashFunc = 65521
  /\ heap[ret.arg].Edges # <<>>
  /\ accumulator = ret.hash
  /\ accumulator # HashReset(HashFunc)
  /\ \E p \in Refs(heap) :
       IsomorphismHashOn(heap, p, accumulator).hash # ret.hash

RegisterCalls == {"GetEquivalenceClass", "Initialize", "Reset"}

\* C34: GetEquivalenceClass, Initialize and Reset, whatever they return,
\* make no State and leave the id, the edge map, the terminal flag and the
\* annotation set of every State as they were.
C34_RegisterOnlyReads ==
  [][ ret'.op \in RegisterCalls =>
        /\ Len(heap') = Len(heap)
        /\ \A s \in Refs(heap) :
             /\ GetId(heap', s) = GetId(heap, s)
             /\ heap'[s].Edges = heap[s].Edges
             /\ IsTerminal(heap', s) = IsTerminal(heap, s)
             /\ heap'[s].Annotations = heap[s].Annotations ]_vars

\* C34 witness: GetEquivalenceClass(q) has returned another State, with
\* another id, for a q that is terminal and annotated, and q is as it was.
C34_Witness ==
  /\ ret.op = "GetEquivalenceClass" /\ ret.err = NoErr
  /\ ret.state # ret.arg
  /\ GetId(heap, ret.state) # GetId(heap, ret.arg)
  /\ IsTerminal(heap, ret.arg)
  /\ heap[ret.arg].Annotations # {}

=============================================================================
